---- MODULE Spec2Model ----
(***************************************************************************)
(* Turn-orchestration core of lecturers-gpt-server: the topic state        *)
(* machine (topicState.js), the request handlers (index.js), retrieval     *)
(* (rag.js), the TTL cache (cache.js) and chat memory (chatMemory.js).     *)
(***************************************************************************)
EXTENDS Integers, Sequences, FiniteSets, TLC

VARIABLES
    userState,   \* topicState.js: the UserState decideTurn reads and replaces
    turn,        \* the TurnDecision of the last decideTurn call, or NoTurn
    prompt,       \* the prompt of the last decideTurn call
    priorState,   \* the state the last decideTurn call was given
    asked,        \* the known topics a diagnosis-only turn was returned for
    askKind,     \* index.js: "json" (POST /api/ask) or "stream" (handleStreamingRequest)
    askPc,       \* where the request in progress stands
    askTurn,     \* what the handler keeps of decideTurn's result
    answer,      \* answer / fullAnswer of the request in progress
    guardFailed, \* the completion returned a text isValidDiagnosisOnlyOutput refused
    sent,        \* what the request wrote to the client, in order
    saved,       \* the messages the request persisted with saveChatMessage, in order
    chatMemoryEnabled,
    events,       \* what the request in hand has got done, in order
    stateSave,    \* the saveUserState call running in the background, or NoSave
    similarities, \* rag.js performRAGWork: the scored candidates, in retrieval order
    topK,         \* the topK the caller passed
    ranked,       \* the {chunks, sources} built from them, or NotRanked
    now,          \* Date.now()
    ragReady,     \* rag.js: firestoreDb and openaiEmbeddings are set (initRAG)
    corpus,       \* the rag_chunks collection, in the order a query returns it
    batchStart,   \* performRAGWork: where the scoring batch in flight starts
    ragCache,     \* rag.js ragCache: cache key -> {data, timestamp} or NoEntry
    ragCall,      \* the arguments of the queryRAG call being served, or NoCall
    workPc,       \* performRAGWork: "idle", "embedding", "query" or "settled"
    timer,        \* queryRAG's deadline timer: "none", "armed" or "fired"
    aborted,      \* abortSignal.aborted
    raised,       \* the error performRAGWork rejected with, or NoError
    ragResult,    \* what queryRAG resolved with, or Pending
    ctxResult,    \* what getRAGContext resolved with, Pending, or Threw
    cache,        \* cache.js cache: key -> {data, timestamp, ttl} or NoCacheEntry
    requested,    \* key -> the ttl passed to the setCache that wrote the entry, or -1
    lastOp,       \* the last cache.js call: its name, key and return value
    store,        \* chat_messages of the user, oldest first (message ids)
    nextId,       \* the id the next message gets
    appended,     \* messages saved to the store and passed to updateHistoryCache
    started,      \* requests of the user started so far
    req,          \* the user's requests in flight: position and local values
    conversationHistory, \* the loaded history: each message's content length
    limitedHistory,      \* the history put into the completion call's messages
    limited,             \* the history limiting has run
    version,      \* which chatMemory.js is deployed: "awaited", "unordered", "offset"
    storedCap,    \* MAX_STORED_MESSAGES_PER_USER as set in the environment
    chatMessages, \* the chat_messages collection: {id, user}, id in createdAt order
    nextDoc,      \* the id of the next document added
    job,          \* the saveChatMessage calls in flight with their pruning pass
    lastRead,     \* the getUserConversationHistory call that has just returned
    handling,     \* per user: where the request being handled stands
    touched,      \* per user: the cache entries and records its requests used
    sess,         \* one user's turns in flight: the state read, the nextState
    wipe,         \* the user's wipe request: where it stands
    vecA,         \* cosineSimilarity: the first vector
    vecB,         \* cosineSimilarity: the second vector
    cosine,       \* cosineSimilarity: what the call returned, in hundredths
    historyLimit, \* MAX_HISTORY_MESSAGES as set in the environment
    served,       \* what the last getHistoryCached call returned
    profile,      \* user_profiles: does the user's document exist
    flCache,      \* the cache entry under the user's first_login key
    login,        \* per request: where its first-login check stands
    logins,       \* first-login checks started
    firstSeen,    \* requests that reported first_login = true
    helped,       \* the last cache-aside helper call: what it found, loaded and returned
    helps,        \* cache-aside helper calls made
    keyCalls,     \* two queryRAG calls: the query text and the course name of each
    keyed,        \* the cache keys computed so far
    keyShared,    \* did the second call hit the entry of the first
    sweepKind,    \* which cache the sweep is followed in: cache.js's or rag.js's
    held,         \* that cache: the timestamp and ttl of the entry under each key
    sweepOp,      \* the last call on that cache: its name and key
    sweepOps,     \* calls made on that cache
    objs,         \* the UserState objects made so far, each holding a reference to its diagnosedTopics map
    maps,         \* the diagnosedTopics maps made so far
    cachedObj,    \* the object the user_state cache entry holds, 0 for no entry
    stateObj,     \* the object a request got from getStateCached, 0 outside a request
    nextObj,      \* the nextState object decideTurn returned, 0 before it
    aliasOp       \* the last call that touched a UserState object

turnVars == <<userState, turn, prompt, priorState, asked>>
askVars == <<askKind, askPc, askTurn, answer, guardFailed, sent, saved, chatMemoryEnabled,
             events, stateSave>>

rankVars == <<similarities, topK, ranked>>

ragRest == <<ragReady, corpus, batchStart, ragCache, ragCall, workPc, timer, aborted, raised,
             ragResult, ctxResult>>

ragVars == <<now, ragRest>>

cacheVars == <<cache, requested, lastOp>>

histVars == <<store, nextId, appended, started, req>>

trimVars == <<conversationHistory, limitedHistory, limited>>

memVars == <<version, storedCap, chatMessages, nextDoc, job, lastRead>>

userVars == <<handling, touched>>

sessVars == <<sess, wipe>>

cosVars == <<vecA, vecB, cosine>>

hitVars == <<historyLimit, served>>

firstVars == <<profile, flCache, login, logins, firstSeen>>

helpVars == <<helped, helps>>

keyVars == <<keyCalls, keyed, keyShared>>

sweepVars == <<sweepKind, held, sweepOp, sweepOps>>

aliasVars == <<objs, maps, cachedObj, stateObj, nextObj, aliasOp>>

vars == <<turnVars, askVars, rankVars, ragVars, cacheVars, histVars, trimVars, memVars,
          userVars, sessVars, cosVars, hitVars,
          firstVars,
          helpVars,
          keyVars,
          sweepVars,
          aliasVars>>

(***************************************************************************)
(* Bounds                                                                  *)
(***************************************************************************)
MaxTopics == 2
MaxPromptLen == 2
MaxOutLen == 3      \* fragments in a completion text
LongRun == 319      \* letters in the long fragment of a completion text
MaxScored == 3      \* scored candidates handed to the ranking step
MaxTopK == 2        \* largest topK a caller passes
MaxDocs == 2        \* documents in the rag_chunks collection
MaxRagTicks == 2    \* times the retrieval cache's TTL can run out
MaxHalfMinutes == 2 \* half minutes that pass
MaxMessages == 2    \* largest maxMessages passed to updateHistoryCache
MaxRequests == 3    \* requests one user sends
MaxLoaded == 3      \* messages of any size at the old end of a loaded history
MaxStoredCap == 4   \* largest MAX_STORED_MESSAGES_PER_USER set in the environment
MaxAdded == 4       \* documents ever added to chat_messages
MaxLimit == 1       \* largest limit passed to getUserConversationHistory
MaxDim == 2         \* largest dimension of an embedding vector
MaxTurns == 2       \* turns one user starts in a session
MaxRecent == 7      \* equal-sized messages at the new end of a loaded history
MaxHistoryLimit == 2 \* largest MAX_HISTORY_MESSAGES set in the environment
MaxLogins == 3      \* first-login checks one user's requests start
MaxHelps == 3       \* cache-aside helper calls
MaxSweepOps == 2    \* calls on a cache that is about to reach its high-water mark
MaxObjects == 4     \* UserState objects made by loads and by decideTurn

(***************************************************************************)
(* topicState.js                                                           *)
(***************************************************************************)

\* TOPIC_RULES, in table order (the order decides which rule wins).
TOPIC_RULES ==
    <<"mean", "median", "mode", "std", "variance", "z", "t", "correlation",
      "regression", "sampling_distribution", "confidence_interval",
      "hypothesis_testing", "anova", "chi_square", "cronbach_alpha">>

\* The rules the model draws prompts for: the first MaxTopics of the table.
Topics == {TOPIC_RULES[i] : i \in 1..MaxTopics}

\* A prompt is a trimmed sequence of words.  A topic id stands for a word one
\* of that rule's patterns matches; "A)" is a choice letter followed by a
\* parenthesis, "B" a bare choice letter, "final:" a fast-pass trigger and
\* "word" any other text.
PromptWords == Topics \cup {"A)", "B", "final:", "word"}

Prompts == UNION {[1..n -> PromptWords] : n \in 1..MaxPromptLen}

Contains(p, w) == \E i \in 1..Len(p) : p[i] = w

\* detectTopic: the first rule of the table with a matching pattern.
detectTopic(p) ==
    IF \E i \in 1..Len(TOPIC_RULES) : Contains(p, TOPIC_RULES[i])
    THEN TOPIC_RULES[CHOOSE i \in 1..Len(TOPIC_RULES) :
             /\ Contains(p, TOPIC_RULES[i])
             /\ \A j \in 1..(i - 1) : ~Contains(p, TOPIC_RULES[j])]
    ELSE "unknown"

\* isFastPassRequest: the text includes a trigger anywhere.
isFastPassRequest(p) == Contains(p, "final:")

\* isAnswerToMultipleChoice: /^[A-D][\)\.]\s*/ or /^[A-D]$/ on the trimmed text.
isAnswerToMultipleChoice(p) ==
    \/ (Len(p) >= 1 /\ p[1] = "A)")
    \/ p = <<"B">>

\* defaultUserState (email and updatedAt play no part in any decision).
defaultUserState ==
    [currentTopic |-> "null", phase |-> "IDLE", diagnosedTopics |-> {}]

UserStates ==
    [currentTopic : Topics \cup {"null"},
     phase : {"IDLE", "DIAGNOSE", "TEACH"},
     diagnosedTopics : SUBSET Topics]

\* needsDiagnosis with a fault: a switch to another topic asks for no
\* diagnosis.
needsDiagnosisNoSwitch(explicitTopic, activeTopic, wantsFastPass, isAnswer, state) ==
    /\ ~wantsFastPass
    /\ ~(isAnswer /\ state.phase = "DIAGNOSE")
    /\ state.currentTopic = "null"
    /\ activeTopic \notin state.diagnosedTopics

\* needsDiagnosis with a fault: the fast-pass trigger is not looked at.
needsDiagnosisDespiteFastPass(explicitTopic, activeTopic, wantsFastPass, isAnswer, state) ==
    /\ ~(isAnswer /\ state.phase = "DIAGNOSE")
    /\ activeTopic \notin state.diagnosedTopics

\* needsDiagnosis with a fault: the "diagnosis first" branch is taken in
\* every phase.
needsDiagnosisAnyPhase(explicitTopic, activeTopic, wantsFastPass, isAnswer, state) ==
    /\ ~wantsFastPass
    /\ ~(isAnswer /\ state.phase = "DIAGNOSE")
    /\ activeTopic \notin state.diagnosedTopics

\* needsDiagnosis with a fault: a switch to a topic asks for a diagnosis
\* whether or not the topic was diagnosed before.
needsDiagnosisEverySwitch(explicitTopic, activeTopic, wantsFastPass, isAnswer, state) ==
    /\ ~wantsFastPass
    /\ ~(isAnswer /\ state.phase = "DIAGNOSE")
    /\ \/ explicitTopic # "unknown" /\ explicitTopic # state.currentTopic
       \/ activeTopic \notin state.diagnosedTopics

\* decideTurn, lines 224-245: must this turn be diagnosis-only?
needsDiagnosis(explicitTopic, activeTopic, wantsFastPass, isAnswer, state) ==
    LET currentTopic    == state.currentTopic
        diagnosedTopics == state.diagnosedTopics
        phase           == state.phase
        hasActiveTopic  == currentTopic # "null"
        topicChanged    == explicitTopic # "unknown" /\ explicitTopic # currentTopic
    IN  IF wantsFastPass THEN FALSE
        ELSE IF isAnswer /\ phase = "DIAGNOSE" THEN FALSE
        ELSE IF activeTopic = "unknown" /\ ~hasActiveTopic THEN TRUE
        ELSE IF topicChanged THEN explicitTopic \notin diagnosedTopics
        ELSE IF ~hasActiveTopic /\ explicitTopic # "unknown"
             THEN explicitTopic \notin diagnosedTopics
        ELSE IF phase = "IDLE" /\ activeTopic # "unknown"
             THEN activeTopic \notin diagnosedTopics
        ELSE FALSE

\* nextCurrentTopic with a fault: the prior topic is kept on a topic switch.
nextCurrentTopicStale(activeTopic, currentTopic) == currentTopic

\* nextCurrentTopic with a fault: a turn on which no topic is recognized
\* clears the topic.
nextCurrentTopicCleared(activeTopic, currentTopic) ==
    IF activeTopic = currentTopic THEN "null" ELSE activeTopic

\* decideTurn, line 251: nextState.currentTopic.
nextCurrentTopic(activeTopic, currentTopic) ==
    IF activeTopic = "unknown" THEN currentTopic ELSE activeTopic

\* nextPhase with a fault: an answer leaves the phase as it was.
nextPhaseStuck(activeTopic, diagnosisOnly, isAnswer, phase) ==
    IF isAnswer /\ phase = "DIAGNOSE" THEN phase
    ELSE IF diagnosisOnly THEN "DIAGNOSE"
    ELSE IF activeTopic = "unknown" THEN "IDLE"
    ELSE "TEACH"

\* nextPhase with a fault: a turn without a diagnosis always teaches.
nextPhaseTeaches(activeTopic, diagnosisOnly, isAnswer, phase) ==
    IF diagnosisOnly /\ ~(isAnswer /\ phase = "DIAGNOSE") THEN "DIAGNOSE" ELSE "TEACH"

\* decideTurn, lines 252 and 262-266: nextState.phase.
nextPhase(activeTopic, diagnosisOnly, isAnswer, phase) ==
    IF isAnswer /\ phase = "DIAGNOSE" /\ activeTopic # "unknown" THEN "TEACH"
    ELSE IF diagnosisOnly THEN "DIAGNOSE"
    ELSE IF activeTopic = "unknown" THEN "IDLE"
    ELSE "TEACH"

\* nextDiagnosedTopics with a fault: marking a topic starts a new map.
nextDiagnosedTopicsReset(activeTopic, diagnosisOnly, isAnswer, state) ==
    IF activeTopic # "unknown" /\ (diagnosisOnly \/ (isAnswer /\ state.phase = "DIAGNOSE"))
    THEN {activeTopic}
    ELSE state.diagnosedTopics

\* nextDiagnosedTopics with a fault: only an answer marks a topic.
nextDiagnosedTopicsOnAnswer(activeTopic, diagnosisOnly, isAnswer, state) ==
    IF isAnswer /\ state.phase = "DIAGNOSE" /\ activeTopic # "unknown"
    THEN state.diagnosedTopics \cup {activeTopic}
    ELSE state.diagnosedTopics

\* decideTurn, lines 253 and 257-266: nextState.diagnosedTopics.
nextDiagnosedTopics(activeTopic, diagnosisOnly, isAnswer, state) ==
    LET marked == IF diagnosisOnly /\ activeTopic # "unknown"
                  THEN state.diagnosedTopics \cup {activeTopic}
                  ELSE state.diagnosedTopics
    IN  IF isAnswer /\ state.phase = "DIAGNOSE" /\ activeTopic # "unknown"
        THEN marked \cup {activeTopic}
        ELSE marked

decideTurn(p, state) ==
    LET explicitTopic == detectTopic(p)
        wantsFastPass == isFastPassRequest(p)
        isAnswer      == isAnswerToMultipleChoice(p)
        currentTopic  == state.currentTopic
        activeTopic   == IF explicitTopic # "unknown" THEN explicitTopic
                         ELSE IF currentTopic # "null" THEN currentTopic
                         ELSE "unknown"
        diagnosisOnly == needsDiagnosis(explicitTopic, activeTopic, wantsFastPass,
                                        isAnswer, state)
    IN  [explicitTopic |-> explicitTopic,
         activeTopic   |-> activeTopic,
         wantsFastPass |-> wantsFastPass,
         diagnosisOnly |-> diagnosisOnly,
         ragQuery      |-> IF activeTopic # "unknown" /\ explicitTopic = "unknown"
                           THEN <<activeTopic>> \o p
                           ELSE p,
         nextState     |->
             [currentTopic    |-> nextCurrentTopic(activeTopic, currentTopic),
              phase           |-> nextPhase(activeTopic, diagnosisOnly, isAnswer,
                                            state.phase),
              diagnosedTopics |-> nextDiagnosedTopics(activeTopic, diagnosisOnly,
                                                      isAnswer, state)]]

NoTurn == [explicitTopic |-> "none"]

\* A fresh user: defaultUserState, no turn decided yet.
TurnInit ==
    /\ userState = defaultUserState
    /\ turn = NoTurn
    /\ prompt = <<>>
    /\ priorState = defaultUserState
    /\ asked = {}

(***************************************************************************)
(* Texts.  A completion text is a sequence of characters: "a" a letter,    *)
(* " " a space, "?" and "." sentence terminators, "=" a character of the   *)
(* forbidden-content patterns, and "L" a run of LongRun letters.           *)
(***************************************************************************)
DIAG_MAX_CHARS == 320

Fragments ==
    << <<"a">>, <<" ">>, <<"?">>, <<"a", ".", "a", ".">>, <<"=">>, <<"L">> >>

RECURSIVE Flatten(_)
Flatten(fs) ==
    IF fs = <<>> THEN <<>> ELSE Fragments[Head(fs)] \o Flatten(Tail(fs))

\* The texts a completion can return.
Outputs ==
    {Flatten(fs) : fs \in UNION {[1..n -> 1..Len(Fragments)] : n \in 0..MaxOutLen}}

RECURSIVE TrimLeft(_)
TrimLeft(s) ==
    IF s # <<>> /\ Head(s) = " " THEN TrimLeft(Tail(s)) ELSE s

RECURSIVE TrimRight(_)
TrimRight(s) ==
    IF s # <<>> /\ s[Len(s)] = " " THEN TrimRight(SubSeq(s, 1, Len(s) - 1)) ELSE s

\* String.prototype.trim
Trim(s) == TrimRight(TrimLeft(s))

RECURSIVE TextLength(_)
TextLength(s) ==
    IF s = <<>> THEN 0
    ELSE (IF Head(s) = "L" THEN LongRun ELSE 1) + TextLength(Tail(s))

CountOf(s, c) == Cardinality({i \in 1..Len(s) : s[i] = c})

\* countSentencesHeuristically: the pieces between terminators that are not
\* blank; nonBlank tells whether the piece being read has a non-space character.
RECURSIVE SentencesFrom(_, _)
SentencesFrom(s, nonBlank) ==
    IF s = <<>> THEN (IF nonBlank THEN 1 ELSE 0)
    ELSE IF Head(s) \in {".", "?"}
         THEN (IF nonBlank THEN 1 ELSE 0) + SentencesFrom(Tail(s), FALSE)
         ELSE SentencesFrom(Tail(s), nonBlank \/ Head(s) # " ")

countSentencesHeuristically(s) == SentencesFrom(s, FALSE)

\* hasForbiddenDiagnosisContent: of the patterns, only /=/ can match a text
\* over these characters.
hasForbiddenDiagnosisContent(s) == CountOf(s, "=") > 0

isValidDiagnosisOnlyOutput(output) ==
    LET text == Trim(output)
    IN  /\ text # <<>>
        /\ ~(TextLength(text) > DIAG_MAX_CHARS)
        /\ ~(countSentencesHeuristically(text) > 2)
        /\ CountOf(text, "?") > 0
        /\ ~(CountOf(text, "?") > 2)
        /\ ~hasForbiddenDiagnosisContent(text)

\* forcedDiagnosticTemplate: a fixed text that depends on the topic id alone.
forcedDiagnosticTemplate(topicId) == <<"TEMPLATE", topicId>>

\* cleanLaTeXFormulas: its rewrites all need a "$" or a backslash; on a text
\* without them only the closing trim acts.
cleanLaTeXFormulas(text) == IF text = <<>> THEN text ELSE Trim(text)

(***************************************************************************)
(* index.js: request-handler helpers.                                      *)
(***************************************************************************)
\* enforceDiagnosis with a fault: the guard's verdict is ignored.
enforceDiagnosisSkipped(text, t) == text

\* index.js 591-594 and 898-900: a diagnosis-only answer that fails the guard
\* is replaced by the template.
enforceDiagnosis(text, t) ==
    IF t.diagnosisOnly /\ ~isValidDiagnosisOnlyOutput(text)
    THEN forcedDiagnosticTemplate(t.activeTopic)
    ELSE text

\* What the handlers' control flow reads of a TurnDecision (wantsFastPass
\* only sets the completion call's temperature and max_tokens).
TurnSummary(t) ==
    [diagnosisOnly |-> t.diagnosisOnly, activeTopic |-> t.activeTopic,
     nextState |-> t.nextState]

NoSummary == [diagnosisOnly |-> FALSE, activeTopic |-> "unknown",
              nextState |-> defaultUserState]

(***************************************************************************)
(* rag.js: ranking of the scored candidates (performRAGWork 375-415).      *)
(* A similarity is kept in hundredths; a source is its path, segment by    *)
(* segment; a candidate's text is "" (hasText FALSE) or a text of its own, *)
(* named by the candidate's position in retrieval order.                   *)
(***************************************************************************)
SIMILARITY_THRESHOLD == 5

Sims == {5, 50, 90}

Sources == { <<"dir", "a.pdf">>, <<"a.pdf">>, <<"b.pdf">> }

ScoredDocs == [sim : Sims, source : Sources, hasText : BOOLEAN]

\* The similarities array: candidate i is the i-th valid result pushed.
WithIds(docs) ==
    [i \in 1..Len(docs) |->
        [id |-> i, sim |-> docs[i].sim, source |-> docs[i].source,
         hasText |-> docs[i].hasText]]

ScoredLists ==
    {WithIds(docs) : docs \in UNION {[1..n -> ScoredDocs] : n \in 0..MaxScored}}

\* Array.prototype.sort with (a, b) => b.similarity - a.similarity: stable,
\* descending.  Insert puts x after every element that is not smaller.
RECURSIVE Insert(_, _)
Insert(x, sorted) ==
    IF sorted = <<>> THEN <<x>>
    ELSE IF Head(sorted).sim >= x.sim THEN <<Head(sorted)>> \o Insert(x, Tail(sorted))
    ELSE <<x>> \o sorted

RECURSIVE SortBySimilarity(_)
SortBySimilarity(s) ==
    IF s = <<>> THEN <<>>
    ELSE Insert(s[Len(s)], SortBySimilarity(SubSeq(s, 1, Len(s) - 1)))

\* similarities.slice(0, topK)
Slice(s, k) == SubSeq(s, 1, IF k < Len(s) THEN k ELSE Len(s))

\* sourceName.split('/').pop().split('\\').pop()
normalizedSource(source) == source[Len(source)]

\* passesFilter with a fault: the threshold comparison is not strict.
passesFilterNotStrict(result) == result.hasText /\ result.sim >= SIMILARITY_THRESHOLD

\* rag.js 396: result.text && result.similarity > 0.05
passesFilter(result) == result.hasText /\ result.sim > SIMILARITY_THRESHOLD

\* addSource with a fault: every chunk's source is listed.
addSourceAlways(sources, seenSources, result) ==
    Append(sources, [source |-> result.source, score |-> result.sim])

\* rag.js 399-411: the source is listed unless its basename was seen.
addSource(sources, seenSources, result) ==
    IF normalizedSource(result.source) \in seenSources THEN sources
    ELSE Append(sources, [source |-> result.source, score |-> result.sim])

\* rag.js 385-413: the loop over topResults; acc carries chunks, sources and
\* seenSources.  A chunk is named by the id of the candidate whose text it is.
RECURSIVE ProcessResults(_, _)
ProcessResults(topResults, acc) ==
    IF topResults = <<>> THEN acc
    ELSE LET result == Head(topResults)
         IN  IF passesFilter(result)
             THEN ProcessResults(Tail(topResults),
                     [chunks  |-> Append(acc.chunks, result.id),
                      sources |-> addSource(acc.sources, acc.seen, result),
                      seen    |-> acc.seen \cup {normalizedSource(result.source)}])
             ELSE ProcessResults(Tail(topResults), acc)

\* rag.js 375-415: sort, slice, filter, collect.
rankResults(sims, k) ==
    LET acc == ProcessResults(Slice(SortBySimilarity(sims), k),
                              [chunks |-> <<>>, sources |-> <<>>, seen |-> {}])
    IN  [chunks |-> acc.chunks, sources |-> acc.sources]

(***************************************************************************)
(* cache.js: the Map-based cache with TTL.                                 *)
(***************************************************************************)
DEFAULT_TTL == [conversationHistory |-> 30000, userState |-> 60000, firstLogin |-> 60000]

\* User ids as typed: characters, "A" the upper case of "a".
UserIds == {<<"a">>, <<"A", " ">>}

toLowerCase(id) == [i \in 1..Len(id) |-> IF id[i] = "A" THEN "a" ELSE id[i]]

\* getConversationHistoryKey with a fault: the key leaves the user out.
getConversationHistoryKeyShared(userId) == <<"conv_history", <<>>>>

getConversationHistoryKey(userId) == <<"conv_history", Trim(toLowerCase(userId))>>

getUserStateKey(userId) == <<"user_state", Trim(toLowerCase(userId))>>

CacheKeys == {getConversationHistoryKey(u) : u \in UserIds}
                 \cup {getUserStateKey(u) : u \in UserIds}

\* Cached data: an array of messages, or something that is not an array.
ArrayOf(items) == [isArray |-> TRUE, items |-> items]

Scalar(v) == [isArray |-> FALSE, items |-> <<v>>]

Null == [isArray |-> FALSE, items |-> <<>>]

NoCacheEntry == [data |-> Null, timestamp |-> -1, ttl |-> -1]

\* age <= entry.ttl
entryLive(entry, t) == entry # NoCacheEntry /\ t - entry.timestamp <= entry.ttl

\* setCache 207-211: a ttl of 0 is falsy and gets the default.
storedTtl(ttl) == IF ttl = 0 THEN DEFAULT_TTL.conversationHistory ELSE ttl

\* The updated entry gets a new timestamp instead.
updatedEntryRestamped(entry, data, t) ==
    [data |-> data, timestamp |-> t, ttl |-> entry.ttl]

\* updateHistoryCache 365-369, updateStateCache 401-405.
updatedEntry(entry, data, t) ==
    [data |-> data, timestamp |-> entry.timestamp, ttl |-> entry.ttl]

\* history.slice(-maxMessages)
LastN(seq, n) ==
    IF n = 0 \/ Len(seq) <= n THEN seq
    ELSE SubSeq(seq, Len(seq) - n + 1, Len(seq))

\* updateHistoryCache 357-362.
appendCapped(data, message, maxMessages) ==
    ArrayOf(LastN(Append(IF data.isArray THEN data.items ELSE <<>>, message), maxMessages))

NoOp == [name |-> "none", key |-> <<>>, hit |-> FALSE, data |-> Null, flip |-> FALSE]

Op(name, key, hit, data) ==
    [name |-> name, key |-> key, hit |-> hit, data |-> data, flip |-> ~lastOp.flip]

(***************************************************************************)
(* chatMemory.js: the stored conversation of one user.                     *)
(***************************************************************************)
MAX_HISTORY_MESSAGES == 20

MAX_STORED_MESSAGES_PER_USER == 200

\* getUserConversationHistory 64-117: the last limit (by default
\* MAX_HISTORY_MESSAGES) stored messages, oldest first; an empty array when the query fails.
getUserConversationHistory(stored, limit, ok) ==
    IF ok THEN LastN(stored, limit) ELSE <<>>

\* saveChatMessage 31-62: add the message, then cleanupOldMessages keeps the
\* newest MAX_STORED_MESSAGES_PER_USER; a failure leaves the store as it was.
saveChatMessage(stored, id, ok) ==
    IF ok THEN LastN(Append(stored, id), MAX_STORED_MESSAGES_PER_USER) ELSE stored

Slots == {1, 2}

\* A message the store did not take has no id there.
Unsaved == 0

IdleReq == [pc |-> "idle", loaded |-> <<>>, history |-> <<>>, cached |-> FALSE,
            msg |-> Unsaved, stored |-> FALSE]

(***************************************************************************)
(* index.js 523-549 and 811-837: token-based history limiting, with        *)
(* estimateTokens and estimateMessagesTokens of the performance logger.    *)
(* A message is the length of its content.                                 *)
(***************************************************************************)
MAX_HISTORY_TOKENS == 1500

MAX_HISTORY_MESSAGES_FALLBACK == 8

\* Math.ceil(text.length / 4), 0 for an empty text
estimateTokens(length) == (length + 3) \div 4

RECURSIVE estimateMessagesTokens(_)
estimateMessagesTokens(messages) ==
    IF messages = <<>> THEN 0
    ELSE estimateMessagesTokens(SubSeq(messages, 1, Len(messages) - 1))
             + estimateTokens(messages[Len(messages)]) + 10

\* The loop 534-543: from message i down, with trimmedTokens so far.
RECURSIVE keepCount(_, _, _)
keepCount(history, i, trimmedTokens) ==
    IF i = 0 THEN 0
    ELSE LET msgTokens == estimateTokens(history[i]) + 10
         IN  IF trimmedTokens + msgTokens <= MAX_HISTORY_TOKENS
             THEN 1 + keepCount(history, i - 1, trimmedTokens + msgTokens)
             ELSE 0

\* conversationHistory.slice(-keepCount)
keptMessages(history, n) == LastN(history, n)

limitHistory(history) ==
    IF estimateMessagesTokens(history) > MAX_HISTORY_TOKENS
    THEN keptMessages(history, keepCount(history, Len(history), 0))
    ELSE IF Len(history) > MAX_HISTORY_MESSAGES_FALLBACK
    THEN LastN(history, MAX_HISTORY_MESSAGES_FALLBACK)
    ELSE history

(***************************************************************************)
(* chatMemory.js, the collection seen document by document.  The source    *)
(* holds three versions of the file: cleanupOldMessages awaited and        *)
(* reading everything in order (1-190), run in the background and reading   *)
(* without orderBy (193-429), run in the background with orderBy and       *)
(* offset (431-648).                                                       *)
(***************************************************************************)
Versions == {"awaited", "unordered", "offset"}

StoreUserIds == {<<"A", " ">>, <<"b">>}

\* userId.toLowerCase().trim()
normalizeUserId(userId) == Trim(toLowerCase(userId))

UserDocs(collection, user) == {d \in collection : d.user = user}

\* The n documents of a set with the latest createdAt.
RECURSIVE Newest(_, _)
Newest(set, n) ==
    IF n = 0 \/ set = {} THEN {}
    ELSE LET top == CHOOSE d \in set : \A e \in set : e.id <= d.id
         IN  {top} \cup Newest(set \ {top}, n - 1)

\* The n documents of a set with the earliest createdAt.
RECURSIVE Oldest(_, _)
Oldest(set, n) ==
    IF n = 0 \/ set = {} THEN {}
    ELSE LET low == CHOOSE d \in set : \A e \in set : d.id <= e.id
         IN  {low} \cup Oldest(set \ {low}, n - 1)

\* sort((a, b) => a.createdAt - b.createdAt), as the sequence of ids
RECURSIVE SortAsc(_)
SortAsc(set) ==
    IF set = {} THEN <<>>
    ELSE LET low == CHOOSE d \in set : \A e \in set : d.id <= e.id
         IN  <<low.id>> \o SortAsc(set \ {low})

Min(a, b) == IF a < b THEN a ELSE b

\* A query with limit(n) and no orderBy returns the documents in the order
\* of their generated ids: any n of them.
AnyOf(set, n) == {part \in SUBSET set : Cardinality(part) = Min(n, Cardinality(set))}

\* What the pruning pass's query returns (127-131, 340-344, 573-578).
PruneSnapshots(v, own, cap) ==
    IF v = "awaited" THEN {own}
    ELSE IF v = "unordered" THEN AnyOf(own, cap * 2)
    ELSE {own \ Newest(own, cap)}

\* The documents the pruning pass deletes, given its query's snapshot
\* (133-142, 346-364, 580-586).
messagesToDelete(v, snapshot, cap) ==
    IF v = "offset" THEN snapshot
    ELSE IF Cardinality(snapshot) <= cap THEN {}
    ELSE snapshot \ Newest(snapshot, cap)

\* What the history query returns (78-83, 279-283, 517-522).
HistorySnapshots(v, own, limit, cap) ==
    IF v = "awaited" THEN {Oldest(own, cap)}
    ELSE IF v = "unordered" THEN AnyOf(own, limit * 3)
    ELSE {Newest(own, limit * 2)}

\* The messages getUserConversationHistory returns from a snapshot
\* (89-103, 290-304, 529-543).
recentMessages(snapshot, limit) == LastN(SortAsc(snapshot), limit)

BATCH_SIZE == 500

IdleJob == [pc |-> "idle", user |-> <<>>, id |-> Unsaved, toDelete |-> {}, failed |-> FALSE]

NoRead == [user |-> <<>>, limit |-> 0, ok |-> FALSE, result |-> <<>>]

(***************************************************************************)
(* rag.js: the retrieval cache, queryRAG, performRAGWork, getRAGContext.   *)
(***************************************************************************)
RAG_CACHE_TTL == 60000

\* A text is a sequence of characters; "q" and "statistics" stand for one
\* character each.
Queries == {<<"q">>}

Statistics == <<"statistics">>

\* queryText.substring(0, 50)
KEY_CHARS == 50

\* getCacheKey 12-14: `${courseName || 'all'}_${queryText.substring(0, 50)}`.
\* A courseName of null is the empty text.
getCacheKey(queryText, courseName) ==
    (IF courseName = <<>> THEN <<"a", "l", "l">> ELSE courseName)
        \o <<"_">>
        \o SubSeq(queryText, 1, IF Len(queryText) < KEY_CHARS THEN Len(queryText)
                                ELSE KEY_CHARS)

RagKeys == {getCacheKey(q, Statistics) : q \in Queries}

NoEntry == [timestamp |-> -1]

\* getCachedResult: is the entry there and not older than the TTL?
ragCacheLive(entries, key, t) ==
    /\ entries[key] # NoEntry
    /\ ~(t - entries[key].timestamp > RAG_CACHE_TTL)

\* getCachedResult deletes an entry it finds expired.
ragCacheAfterGet(entries, key, t) ==
    IF entries[key] # NoEntry /\ ~ragCacheLive(entries, key, t)
    THEN [entries EXCEPT ![key] = NoEntry]
    ELSE entries

\* setCachedResult (the sweep needs more than 100 entries).
setCachedResult(entries, key, data, t) ==
    [entries EXCEPT ![key] = [data |-> data, timestamp |-> t]]

\* The documents of the collection: sim is the cosine similarity of the
\* document's embedding with the query's, embOK whether the embedding is an
\* array of the query embedding's dimension.
CorpusDocs == [sim : {5, 90}, source : Sources, hasText : {TRUE}, embOK : BOOLEAN]

\* performRAGWork 306
RAG_BATCH_SIZE == 50

\* A collection of three scoring batches: only the document of the third
\* batch has an embedding of the query embedding's dimension.
LargeCorpus ==
    [i \in 1..(2 * RAG_BATCH_SIZE + 1) |->
        [sim |-> 90, source |-> <<"a.pdf">>, hasText |-> TRUE,
         embOK |-> i > 2 * RAG_BATCH_SIZE]]

Corpora == UNION {[1..n -> CorpusDocs] : n \in 0..MaxDocs} \cup {LargeCorpus}

\* abortSignal?.aborted
signalNeverAborted(call, flag) == FALSE

signalAborted(call, flag) == call.hasSignal /\ flag

\* The loop condition of 307, seen from the batch that starts at start.
moreBatchesNever(start, n) == FALSE

moreBatches(start, n) == start + RAG_BATCH_SIZE < n

\* batchEnd, 313
batchEnd(start, n) == IF start + RAG_BATCH_SIZE < n THEN start + RAG_BATCH_SIZE ELSE n

\* performRAGWork 298-363: the valid results, in retrieval order.
usable(d) == d.embOK

Scored(docs) ==
    LET valid == SelectSeq(docs, usable)
    IN  [i \in 1..Len(valid) |->
            [sim |-> valid[i].sim, source |-> valid[i].source,
             hasText |-> valid[i].hasText]]

Result(chunks, sources, status) ==
    [chunks |-> chunks, sources |-> sources, status |-> status]

EmptyResult(status) == Result(<<>>, <<>>, status)

\* performRAGWork 365-442: the documents scored when the loop ends, ranked.
workResult(docs, k) ==
    LET r == rankResults(WithIds(Scored(docs)), k)
    IN  Result(r.chunks, r.sources, "success")

\* An error as the catch blocks see it: its code (0 when it has none) and
\* the parts of its message.
NoError == [code |-> 0, message |-> <<>>]

TimeoutError == [code |-> 0, message |-> <<"RAG_TIMEOUT">>]

StoreErrors ==
    [code : {0, 8},
     message : {<<"Quota exceeded">>, <<"8 ", "RESOURCE_EXHAUSTED", ": quota">>,
                <<"unavailable">>}]

\* message.includes(part)
Includes(message, part) == \E i \in 1..Len(message) : message[i] = part

\* isQuotaError with a fault: only the code is looked at.
isQuotaErrorByCode(e) == e.code = 8

\* queryRAG 192
isQuotaError(e) ==
    \/ e.code = 8
    \/ Includes(e.message, "Quota exceeded")
    \/ Includes(e.message, "RESOURCE_EXHAUSTED")

\* queryRAG 150-220: what the call resolves with when performRAGWork
\* rejects with e (the inner catch and the outer catch give the same).
onWorkRejected(e, isAborted) ==
    IF e.message = <<"RAG_TIMEOUT">> \/ isAborted THEN EmptyResult("timeout")
    ELSE IF isQuotaError(e) THEN EmptyResult("quota_exceeded")
    ELSE EmptyResult("error")

\* The deadline's rejection reported as an error instead.
onDeadlineError == EmptyResult("error")

\* queryRAG 137-166: the timer's rejection wins the race.
onDeadline == EmptyResult("timeout")

Pending == [status |-> "pending"]
Threw == [status |-> "threw"]

\* getRAGContext 548-575: sources[i].source is read for every chunk i.
getRAGContext(r) ==
    IF r = Pending THEN Pending
    ELSE IF Len(r.chunks) = 0
         THEN [context |-> <<>>, sources |-> <<>>, chunksCount |-> 0, status |-> r.status]
    ELSE IF Len(r.sources) < Len(r.chunks) THEN Threw
    ELSE [context |-> [i \in 1..Len(r.chunks) |->
                          [label |-> r.sources[i].source, chunk |-> r.chunks[i]]],
          sources |-> r.sources, chunksCount |-> Len(r.chunks), status |-> r.status]

NoCall == [useTimeout |-> FALSE, hasSignal |-> FALSE, key |-> <<>>, topK |-> 0]

(***************************************************************************)
(* index.js: the cache entries and the stored records a request uses. A    *)
(* location is a store with the key the code computes; write tells a read  *)
(* from a write.  usage_logs is left out: add() makes a new document on    *)
(* every call.                                                             *)
(***************************************************************************)
Emails == {<<"a">>, <<"A", " ">>, <<"b">>}

\* (req.body?.email || "").trim().toLowerCase()
rawEmailOf(email) == toLowerCase(Trim(email))

Users == {rawEmailOf(e) : e \in Emails}

\* topicState.js normalizeEmail
normalizeEmail(rawEmail) == Trim(toLowerCase(rawEmail))

getFirstLoginKey(userId) == <<"first_login", Trim(toLowerCase(userId))>>

Uses(place, key, write) == [store |-> place, key |-> key, write |-> write]

ReadAndWrite(place, key) == {Uses(place, key, FALSE), Uses(place, key, TRUE)}

\* getFirstLoginCached with checkAndMarkFirstLogin, getStateCached with
\* loadUserState, getHistoryCached with getUserConversationHistory.
parallelReads(rawEmail) ==
    ReadAndWrite("cache", getFirstLoginKey(rawEmail))
    \cup ReadAndWrite("user_profiles", toLowerCase(rawEmail))
    \cup ReadAndWrite("cache", getUserStateKey(rawEmail))
    \cup {Uses("user_states", normalizeEmail(rawEmail), FALSE)}
    \cup ReadAndWrite("cache", getConversationHistoryKey(rawEmail))
    \cup {Uses("chat_messages", normalizeUserId(rawEmail), FALSE)}

\* getRAGContext(query, 3, courseName, ...): the retrieval cache entry and
\* the chunks of the course.
retrievalUses(queryText, courseName) ==
    ReadAndWrite("ragCache", getCacheKey(queryText, courseName))
    \cup {Uses("rag_chunks", <<courseName>>, FALSE)}

\* saveChatMessage, updateHistoryCache, saveUserState, updateStateCache
finalWrites(rawEmail) ==
    {Uses("chat_messages", normalizeUserId(rawEmail), TRUE)}
    \cup ReadAndWrite("cache", getConversationHistoryKey(rawEmail))
    \cup {Uses("user_states", normalizeEmail(rawEmail), TRUE)}
    \cup ReadAndWrite("cache", getUserStateKey(rawEmail))

\* deleteUserHistory, saveUserState(defaultUserState), deleteCache twice
wipeUses(rawEmail, deleted) ==
    ReadAndWrite("chat_messages", normalizeUserId(rawEmail))
    \cup (IF deleted
          THEN {Uses("user_states", normalizeEmail(rawEmail), TRUE),
                Uses("cache", getConversationHistoryKey(rawEmail), TRUE),
                Uses("cache", getUserStateKey(rawEmail), TRUE)}
          ELSE {})

NotRanked == [chunks |-> <<>>, sources |-> <<>>, pending |-> TRUE]

(***************************************************************************)
(* The parts of the state a specification does not exercise stay as they   *)
(* are after construction.                                                 *)
(***************************************************************************)
NoSave == [pending |-> FALSE, state |-> defaultUserState]

\* The response is written before the assistant message is saved.
finalizeEarly(done, assistantSaveTried) ==
    done \o <<"responded", "stateSaveStarted">>
         \o (IF assistantSaveTried THEN <<"assistantSaved">> ELSE <<>>)

\* index.js 612-651, 909-933, 971-994: after the assistant message's save
\* has returned, saveUserState is called without await and the response is
\* written.
finalize(done, assistantSaveTried) ==
    done \o (IF assistantSaveTried THEN <<"assistantSaved">> ELSE <<>>)
         \o <<"stateSaveStarted", "responded">>

AskIdle ==
    /\ askKind = "none"
    /\ askPc = "idle"
    /\ askTurn = NoSummary
    /\ answer = <<>>
    /\ guardFailed = FALSE
    /\ sent = <<>>
    /\ saved = <<>>
    /\ events = <<>>

AskQuiet ==
    /\ AskIdle
    /\ chatMemoryEnabled = TRUE
    /\ stateSave = NoSave

RankIdle ==
    /\ similarities = <<>>
    /\ topK = 1
    /\ ranked = NotRanked

RagQuiet ==
    /\ now = 0
    /\ ragReady = TRUE
    /\ corpus = <<>>
    /\ batchStart = 0
    /\ ragCache = [k \in RagKeys |-> NoEntry]
    /\ ragCall = NoCall
    /\ workPc = "idle"
    /\ timer = "none"
    /\ aborted = FALSE
    /\ raised = NoError
    /\ ragResult = Pending
    /\ ctxResult = Pending

CacheQuiet ==
    /\ cache = [k \in CacheKeys |-> NoCacheEntry]
    /\ requested = [k \in CacheKeys |-> -1]
    /\ lastOp = NoOp

HistQuiet ==
    /\ store = <<>>
    /\ nextId = 1
    /\ appended = {}
    /\ started = 0
    /\ req = [r \in Slots |-> IdleReq]

TrimQuiet ==
    /\ conversationHistory = <<>>
    /\ limitedHistory = <<>>
    /\ limited = FALSE

MemQuiet ==
    /\ version = "awaited"
    /\ storedCap = 1
    /\ chatMessages = {}
    /\ nextDoc = 1
    /\ job = [r \in Slots |-> IdleJob]
    /\ lastRead = NoRead

(***************************************************************************)
(* rag.js cosineSimilarity 85-101.  Components are small integers; the     *)
(* quotient is given in hundredths, rounded down.                          *)
(***************************************************************************)
Components == {-1, 0, 2}

Vectors == UNION {[1..n -> Components] : n \in 0..MaxDim}

RECURSIVE Dot(_, _, _)
Dot(a, b, n) == IF n = 0 THEN 0 ELSE a[n] * b[n] + Dot(a, b, n - 1)

\* Math.sqrt(x), rounded down
Sqrt(x) == CHOOSE k \in 0..x : k * k <= x /\ (k + 1) * (k + 1) > x

\* cosineSimilarity with a fault: vectors of different lengths are compared
\* over the components both have.
cosineSimilarityAnyLength(a, b) ==
    LET n == IF Len(a) < Len(b) THEN Len(a) ELSE Len(b)
        dotProduct == Dot(a, b, n)
        normA == Dot(a, a, Len(a))
        normB == Dot(b, b, Len(b))
    IN  IF normA = 0 \/ normB = 0 THEN 0
        ELSE (100 * dotProduct) \div Sqrt(normA * normB)

cosineSimilarity(a, b) ==
    IF Len(a) # Len(b) THEN 0
    ELSE LET dotProduct == Dot(a, b, Len(a))
             normA == Dot(a, a, Len(a))
             normB == Dot(b, b, Len(b))
         IN  IF normA = 0 \/ normB = 0 THEN 0
             ELSE (100 * dotProduct) \div Sqrt(normA * normB)

NotComputed == 1000

CosQuiet ==
    /\ vecA = <<>>
    /\ vecB = <<>>
    /\ cosine = NotComputed

NoHit == [pc |-> "idle", cached |-> FALSE, history |-> <<>>]

HitQuiet ==
    /\ historyLimit = MAX_HISTORY_MESSAGES
    /\ served = NoHit

\* A first-login check: where it stands, what ref.get() saw, what
\* checkAndMarkFirstLogin returned.
IdleLogin == [pc |-> "idle", exists |-> FALSE, result |-> FALSE]

\* getFirstLoginCached 455: a first_login of true is cached as false.
valueToCacheAsLoaded(first_login) == first_login

valueToCache(first_login) == IF first_login = TRUE THEN FALSE ELSE first_login

NoHelp == [helper |-> "none", on |-> FALSE, key |-> <<>>, hit |-> FALSE, calls |-> 0,
           loaded |-> Null, returned |-> Null]

\* setCache 214 and setCachedResult 38: the entry count above which a write
\* sweeps.
HIGH_WATER == [cache |-> 1000, ragCache |-> 100]

Absent == [timestamp |-> -1, ttl |-> -1]

\* The sweep's test with a fault: an entry whose age is its ttl goes too.
expiredAtTtl(entry, t) == t - entry.timestamp >= entry.ttl

\* setCache 217, setCachedResult 41: now - timestamp > ttl.
expired(entry, t) == t - entry.timestamp > entry.ttl

Count(entries) == Cardinality({k \in DOMAIN entries : entries[k] # Absent})

\* setCache 215-220, setCachedResult 39-44
sweep(entries, t) ==
    [k \in DOMAIN entries |->
        IF entries[k] # Absent /\ expired(entries[k], t) THEN Absent ELSE entries[k]]

\* setCache 206-222, setCachedResult 31-46
setAndSweep(entries, key, ttl, t, mark) ==
    LET set == [entries EXCEPT ![key] = [timestamp |-> t, ttl |-> ttl]]
    IN  IF Count(set) > mark THEN sweep(set, t) ELSE set

NoSweepOp == [name |-> "none", key |-> 0]

SweepQuiet ==
    /\ sweepKind = "cache"
    /\ held = <<>>
    /\ sweepOp = NoSweepOp
    /\ sweepOps = 0

AliasQuiet ==
    /\ objs = <<>>
    /\ maps = <<>>
    /\ cachedObj = 0
    /\ stateObj = 0
    /\ nextObj = 0
    /\ aliasOp = "none"

KeyQuiet ==
    /\ keyCalls = <<>>
    /\ keyed = <<>>
    /\ keyShared = "none"

HelpQuiet ==
    /\ helped = NoHelp
    /\ helps = 0

FirstQuiet ==
    /\ profile = FALSE
    /\ flCache = NoCacheEntry
    /\ login = [r \in Slots |-> IdleLogin]
    /\ logins = 0
    /\ firstSeen = 0

(***************************************************************************)
(* index.js: one user's session, the turns and the wipe.                   *)
(***************************************************************************)
StateKey == getUserStateKey(<<"a">>)

\* saveUserState with a fault: the write is dropped.
mergedStateDropped(persisted, state) == persisted

\* saveUserState 111-135: ref.set(..., {merge: true}).  The scalar fields
\* are replaced; a map with entries is merged into the stored map, an empty
\* map replaces it.
mergedState(persisted, state) ==
    [currentTopic |-> state.currentTopic,
     phase |-> state.phase,
     diagnosedTopics |-> IF state.diagnosedTopics = {} THEN {}
                         ELSE persisted.diagnosedTopics \cup state.diagnosedTopics]

IdleTurn == [pc |-> "idle", state |-> defaultUserState, next |-> defaultUserState,
             saved |-> FALSE]

NoWipe == [pc |-> "idle", alone |-> FALSE]

SessQuiet ==
    /\ sess = [r \in Slots |-> IdleTurn]
    /\ wipe = NoWipe

UsersQuiet ==
    /\ handling = [u \in Users |-> "idle"]
    /\ touched = [u \in Users |-> {}]

notTurn == <<askVars, rankVars, ragVars, cacheVars, histVars, trimVars, memVars, userVars,
            sessVars, cosVars, hitVars,
          firstVars,
          helpVars,
          keyVars,
          sweepVars,
          aliasVars>>
notAsk == <<rankVars, ragVars, cacheVars, histVars, trimVars, memVars, userVars,
            sessVars, cosVars, hitVars,
          firstVars,
          helpVars,
          keyVars,
          sweepVars,
          aliasVars>>
notRank == <<turnVars, askVars, ragVars, cacheVars, histVars, trimVars, memVars, userVars,
            sessVars, cosVars, hitVars,
          firstVars,
          helpVars,
          keyVars,
          sweepVars,
          aliasVars>>
notRag == <<turnVars, askVars, rankVars, cacheVars, histVars, trimVars, memVars, userVars,
            sessVars, cosVars, hitVars,
          firstVars,
          helpVars,
          keyVars,
          sweepVars,
          aliasVars>>
notCache == <<turnVars, askVars, rankVars, ragRest, histVars, trimVars, memVars, userVars,
            sessVars, cosVars, hitVars,
          firstVars,
          helpVars,
          keyVars,
          sweepVars,
          aliasVars>>
notHist == <<turnVars, askVars, rankVars, ragRest, requested, lastOp, trimVars, memVars,
             userVars, sessVars, cosVars, hitVars,
          firstVars,
          helpVars,
          keyVars,
          sweepVars,
          aliasVars>>
notTrim == <<turnVars, askVars, rankVars, ragVars, cacheVars, histVars, memVars, userVars,
            sessVars, cosVars, hitVars,
          firstVars,
          helpVars,
          keyVars,
          sweepVars,
          aliasVars>>
notMem == <<turnVars, askVars, rankVars, ragVars, cacheVars, histVars, trimVars, userVars,
            sessVars, cosVars, hitVars,
          firstVars,
          helpVars,
          keyVars,
          sweepVars,
          aliasVars>>
notUsers == <<turnVars, askVars, rankVars, ragVars, cacheVars, histVars, trimVars, memVars,
             sessVars, cosVars, hitVars,
          firstVars,
          helpVars,
          keyVars,
          sweepVars,
          aliasVars>>
notSess == <<turn, prompt, priorState, asked, askVars, rankVars, ragVars, requested, lastOp,
            appended, req, trimVars, memVars, userVars, cosVars, hitVars,
          firstVars,
          helpVars,
          keyVars,
          sweepVars,
          aliasVars>>
notCos == <<turnVars, askVars, rankVars, ragVars, cacheVars, histVars, trimVars, memVars,
           userVars, sessVars, hitVars,
          firstVars,
          helpVars,
          keyVars,
          sweepVars,
          aliasVars>>
notHit == <<turnVars, askVars, rankVars, ragRest, requested, lastOp, appended, req,
            trimVars, memVars, userVars, sessVars, cosVars,
          firstVars,
          helpVars,
          keyVars,
          sweepVars,
          aliasVars>>

(***************************************************************************)
(* index.js: the two request handlers, one request at a time.              *)
(***************************************************************************)
AskInit ==
    /\ AskQuiet
    /\ TurnInit
    /\ RankIdle
    /\ RagQuiet
    /\ CacheQuiet
    /\ HistQuiet
    /\ TrimQuiet
    /\ MemQuiet
    /\ UsersQuiet
    /\ SessQuiet
    /\ CosQuiet
    /\ HitQuiet
    /\ FirstQuiet
    /\ HelpQuiet
    /\ KeyQuiet
    /\ SweepQuiet
    /\ AliasQuiet

\* The handler up to its first completion call or first write: the three
\* reads are joined and decideTurn runs on the user's state.  The streaming
\* handler saves the user message before it calls the model.
AskBegin ==
    /\ askPc = "idle"
    /\ ~stateSave.pending
    /\ \E kind \in {"json", "stream"}, p \in Prompts :
        /\ askKind' = kind
        /\ askTurn' = TurnSummary(decideTurn(p, userState))
        /\ askPc' = IF kind = "json" THEN "completion" ELSE "saveUser"
    /\ answer' = <<>>
    /\ guardFailed' = FALSE
    /\ sent' = <<>>
    /\ saved' = <<>>
    /\ events' = <<>>
    /\ UNCHANGED <<turnVars, chatMemoryEnabled, stateSave, notAsk>>

\* saveChatMessage of the user message (it reports a store failure by
\* returning null, and the handler goes on either way).
AskSaveUser ==
    /\ askPc = "saveUser"
    /\ \E ok \in BOOLEAN :
        saved' = IF chatMemoryEnabled /\ ok
                 THEN Append(saved, [role |-> "user", content |-> <<"PROMPT">>])
                 ELSE saved
    /\ askPc' = IF askKind = "json" THEN "saveAssistant" ELSE "completion"
    /\ events' = Append(events, "userSaved")
    /\ UNCHANGED <<turnVars, askKind, askTurn, answer, guardFailed, sent, chatMemoryEnabled,
                   stateSave, notAsk>>

\* The completion call returns a text: index.js 588-594 (json), 895-903
\* (streaming, diagnosis-only) and 946-965 (streaming, tokens passed on as
\* they arrive).
AskCompletion ==
    /\ askPc = "completion"
    /\ \E o \in Outputs :
        LET raw == cleanLaTeXFormulas(Trim(o))
            final == enforceDiagnosis(raw, askTurn)
        IN  /\ guardFailed' = (askTurn.diagnosisOnly /\ ~isValidDiagnosisOnlyOutput(raw))
            /\ IF askKind = "json"
               THEN /\ answer' = final
                    /\ sent' = sent
                    /\ askPc' = "saveUser"
               ELSE IF askTurn.diagnosisOnly
               THEN /\ answer' = final
                    /\ sent' = Append(sent, [type |-> "token", content |-> final])
                    /\ askPc' = "saveAssistant"
               ELSE /\ answer' = raw
                    /\ sent' = IF o = <<>> THEN sent
                               ELSE Append(sent, [type |-> "token", content |-> o])
                    /\ askPc' = "saveAssistant"
    /\ events' = Append(events, "completion")
    /\ UNCHANGED <<turnVars, askKind, askTurn, saved, chatMemoryEnabled, stateSave, notAsk>>

\* The completion call throws: the handlers' outer catch (653-657, 996-1001).
AskCompletionFails ==
    /\ askPc = "completion"
    /\ sent' = Append(sent, [type |-> "error", content |-> <<"Server error">>])
    /\ askPc' = "done"
    /\ events' = Append(events, "completionFailed")
    /\ UNCHANGED <<turnVars, askKind, askTurn, answer, guardFailed, saved, chatMemoryEnabled,
                   stateSave, notAsk>>

\* saveChatMessage of the assistant message has returned (the streaming
\* handler skips it for an empty answer); then saveUserState is started in
\* the background and the response is finalized (612-651, 909-933, 971-994).
AskSaveAssistant ==
    /\ askPc = "saveAssistant"
    /\ \E ok \in BOOLEAN :
        saved' = IF /\ chatMemoryEnabled
                    /\ ok
                    /\ answer # <<>>
                 THEN Append(saved, [role |-> "assistant", content |-> answer])
                 ELSE saved
    /\ sent' = IF askKind = "json"
               THEN Append(sent, [type |-> "answer", content |-> answer])
               ELSE Append(sent, [type |-> "done", content |-> <<>>])
    /\ events' = finalize(events, askKind = "json" \/ (chatMemoryEnabled /\ answer # <<>>))
    /\ stateSave' = [pending |-> TRUE, state |-> askTurn.nextState]
    /\ askPc' = "done"
    /\ UNCHANGED <<turnVars, askKind, askTurn, answer, guardFailed, chatMemoryEnabled, notAsk>>

\* The background saveUserState ends: the state document is written, or the
\* write fails and false is returned (topicState.js 111-135).
AskStateSaveEnds ==
    /\ stateSave.pending
    /\ \E ok \in BOOLEAN :
        userState' = IF ok THEN stateSave.state ELSE userState
    /\ stateSave' = NoSave
    /\ events' = IF askPc = "done" THEN Append(events, "stateSaved") ELSE events
    /\ UNCHANGED <<turn, prompt, priorState, asked, askKind, askPc, askTurn, answer, guardFailed,
                   sent, saved, chatMemoryEnabled, notAsk>>

\* The handler has returned: its locals are gone.
AskReturn ==
    /\ askPc = "done"
    /\ askKind' = "none"
    /\ askPc' = "idle"
    /\ askTurn' = NoSummary
    /\ answer' = <<>>
    /\ guardFailed' = FALSE
    /\ sent' = <<>>
    /\ saved' = <<>>
    /\ events' = <<>>
    /\ UNCHANGED <<turnVars, chatMemoryEnabled, stateSave, notAsk>>

AskNext ==
    \/ AskBegin
    \/ AskReturn
    \/ AskSaveUser
    \/ AskCompletion
    \/ AskCompletionFails
    \/ AskSaveAssistant
    \/ AskStateSaveEnds

SpecAsk == AskInit /\ [][AskNext]_vars

(***************************************************************************)
(* rag.js: the ranking step on every bounded list of scored candidates.    *)
(***************************************************************************)
RankInit ==
    /\ similarities \in ScoredLists
    /\ topK \in 1..MaxTopK
    /\ ranked = NotRanked
    /\ TurnInit
    /\ AskQuiet
    /\ RagQuiet
    /\ CacheQuiet
    /\ HistQuiet
    /\ TrimQuiet
    /\ MemQuiet
    /\ UsersQuiet
    /\ SessQuiet
    /\ CosQuiet
    /\ HitQuiet
    /\ FirstQuiet
    /\ HelpQuiet
    /\ KeyQuiet
    /\ SweepQuiet
    /\ AliasQuiet

\* A completed, non-aborted run reaches the ranking step with its scored
\* candidates and returns what the step builds.
RankStep ==
    /\ ranked = NotRanked
    /\ ranked' = rankResults(similarities, topK)
    /\ UNCHANGED <<similarities, topK, notRank>>

RankNext == RankStep

SpecRank == RankInit /\ [][RankNext]_vars

(***************************************************************************)
(* rag.js: queryRAG calls through getRAGContext, one at a time.  The       *)
(* embedding call and the store query are the two points where the work    *)
(* waits; the timer and the abort can come at either.                      *)
(***************************************************************************)
RagInit ==
    /\ now = 0
    /\ ragReady \in BOOLEAN
    /\ corpus \in Corpora
    /\ batchStart = 0
    /\ ragCache = [k \in RagKeys |-> NoEntry]
    /\ ragCall = NoCall
    /\ workPc = "idle"
    /\ timer = "none"
    /\ aborted = FALSE
    /\ raised = NoError
    /\ ragResult = Pending
    /\ ctxResult = Pending
    /\ TurnInit
    /\ AskQuiet
    /\ RankIdle
    /\ CacheQuiet
    /\ HistQuiet
    /\ TrimQuiet
    /\ MemQuiet
    /\ UsersQuiet
    /\ SessQuiet
    /\ CosQuiet
    /\ HitQuiet
    /\ FirstQuiet
    /\ HelpQuiet
    /\ KeyQuiet
    /\ SweepQuiet
    /\ AliasQuiet

\* queryRAG resolves with r: getRAGContext goes on in the same turn.
Resolve(r) ==
    /\ ragResult' = r
    /\ ctxResult' = getRAGContext(r)

\* performRAGWork settles; the call takes the outcome unless the deadline
\* has already won the race.
WorkSettles(outcome, e) ==
    /\ workPc' = "settled"
    /\ raised' = e
    /\ IF ragResult = Pending
       THEN Resolve(outcome)
       ELSE UNCHANGED <<ragResult, ctxResult>>

\* getRAGContext(queryText, topK, courseName, maxDocs, timeoutMs, abortSignal)
\* up to the first wait: 105-148 and 224-238.
RagCall ==
    /\ ragCall = NoCall
    /\ \E q \in Queries, useTimeout \in BOOLEAN, hasSignal \in BOOLEAN :
        LET key == getCacheKey(q, Statistics)
        IN  /\ ragCall' = [useTimeout |-> useTimeout, hasSignal |-> hasSignal,
                           key |-> key, topK |-> MaxTopK]
            /\ aborted' = FALSE
            /\ raised' = NoError
            /\ IF ~ragReady
               THEN /\ Resolve(EmptyResult("disabled"))
                    /\ UNCHANGED <<ragCache, workPc, timer>>
               ELSE IF ragCacheLive(ragCache, key, now)
               THEN /\ Resolve(Result(ragCache[key].data.chunks,
                                      ragCache[key].data.sources, "cache_hit"))
                    /\ UNCHANGED <<ragCache, workPc, timer>>
               ELSE /\ ragCache' = ragCacheAfterGet(ragCache, key, now)
                    /\ workPc' = "embedding"
                    /\ timer' = IF useTimeout THEN "armed" ELSE "none"
                    /\ UNCHANGED <<ragResult, ctxResult>>
    /\ UNCHANGED <<now, ragReady, corpus, batchStart, notRag>>

\* The caller aborts the signal it passed.
RagAbort ==
    /\ ragCall # NoCall
    /\ ragCall.hasSignal
    /\ ~aborted
    /\ workPc \in {"embedding", "query", "scoring"}
    /\ aborted' = TRUE
    /\ UNCHANGED <<now, ragReady, corpus, ragCache, ragCall, workPc, timer, raised,
                   ragResult, ctxResult, batchStart, notRag>>

\* The deadline timer fires: 137-141, 150-166.
RagTimerFires ==
    /\ timer = "armed"
    /\ timer' = "fired"
    /\ IF ragResult = Pending
       THEN Resolve(onDeadline)
       ELSE UNCHANGED <<ragResult, ctxResult>>
    /\ UNCHANGED <<now, ragReady, corpus, ragCache, ragCall, workPc, aborted, raised,
                   batchStart, notRag>>

\* createEmbedding returns: 238-265.
RagEmbeddingReturns ==
    /\ workPc = "embedding"
    /\ IF signalAborted(ragCall, aborted)
       THEN WorkSettles(onWorkRejected(TimeoutError, aborted), TimeoutError)
       ELSE /\ workPc' = "query"
            /\ UNCHANGED <<raised, ragResult, ctxResult>>
    /\ UNCHANGED <<now, ragReady, corpus, ragCache, ragCall, timer, aborted, batchStart, notRag>>

\* createEmbedding or the store query rejects.
RagCallFails ==
    /\ workPc \in {"embedding", "query"}
    /\ \E e \in StoreErrors : WorkSettles(onWorkRejected(e, aborted), e)
    /\ UNCHANGED <<now, ragReady, corpus, ragCache, ragCall, timer, aborted, batchStart, notRag>>

\* query.get() returns: 265-360, up to the wait for the first scoring batch.
RagQueryReturns ==
    /\ workPc = "query"
    /\ IF signalAborted(ragCall, aborted)
       THEN WorkSettles(onWorkRejected(TimeoutError, aborted), TimeoutError)
       ELSE IF corpus = <<>>
       THEN WorkSettles(EmptyResult("no_chunks"), NoError)
       ELSE /\ workPc' = "scoring"
            /\ UNCHANGED <<raised, ragResult, ctxResult>>
    /\ UNCHANGED <<now, ragReady, corpus, batchStart, ragCache, ragCall, timer, aborted,
                   notRag>>

\* Promise.all of a scoring batch returns: 355-442.  An aborted signal breaks
\* the loop and the guard after it throws; otherwise the next batch starts,
\* or the loop has ended and the results are ranked, cached and returned.
RagBatchReturns ==
    /\ workPc = "scoring"
    /\ IF signalAborted(ragCall, aborted)
       THEN /\ WorkSettles(onWorkRejected(TimeoutError, aborted), TimeoutError)
            /\ UNCHANGED <<batchStart, ragCache>>
       ELSE IF moreBatches(batchStart, Len(corpus))
       THEN /\ batchStart' = batchStart + RAG_BATCH_SIZE
            /\ UNCHANGED <<workPc, raised, ragResult, ctxResult, ragCache>>
       ELSE LET scored == SubSeq(corpus, 1, batchEnd(batchStart, Len(corpus)))
                r == workResult(scored, ragCall.topK)
            IN  /\ WorkSettles(r, NoError)
                /\ ragCache' = IF ~signalAborted(ragCall, aborted)
                               THEN setCachedResult(ragCache, ragCall.key,
                                        [chunks |-> r.chunks, sources |-> r.sources], now)
                               ELSE ragCache
                /\ UNCHANGED batchStart
    /\ UNCHANGED <<now, ragReady, corpus, ragCall, timer, aborted, notRag>>

\* The call has returned and the work has ended: the next call can come.
RagDone ==
    /\ ragCall # NoCall
    /\ ragResult # Pending
    /\ workPc \in {"idle", "settled"}
    /\ ragCall' = NoCall
    /\ workPc' = "idle"
    /\ timer' = "none"
    /\ aborted' = FALSE
    /\ raised' = NoError
    /\ ragResult' = Pending
    /\ ctxResult' = Pending
    /\ batchStart' = 0
    /\ UNCHANGED <<now, ragReady, corpus, ragCache, notRag>>

\* The retrieval cache's TTL runs out.
RagTick ==
    /\ now < MaxRagTicks * (RAG_CACHE_TTL + 1)
    /\ now' = now + RAG_CACHE_TTL + 1
    /\ UNCHANGED <<ragReady, corpus, ragCache, ragCall, workPc, timer, aborted, raised,
                   ragResult, ctxResult, batchStart, notRag>>

RagNext ==
    \/ RagCall
    \/ RagAbort
    \/ RagTimerFires
    \/ RagEmbeddingReturns
    \/ RagCallFails
    \/ RagQueryReturns
    \/ RagBatchReturns
    \/ RagDone
    \/ RagTick

SpecRag == RagInit /\ [][RagNext]_vars

(***************************************************************************)
(* cache.js: calls of the exported functions in any order, time passing    *)
(* between them.                                                           *)
(***************************************************************************)
TtlArgs == {0, DEFAULT_TTL.conversationHistory, DEFAULT_TTL.userState}

Messages == {"m1"}

CacheValues == {ArrayOf(<<>>), Scalar("s1")}

CacheInit ==
    /\ CacheQuiet
    /\ HistQuiet
    /\ TrimQuiet
    /\ MemQuiet
    /\ UsersQuiet
    /\ SessQuiet
    /\ CosQuiet
    /\ HitQuiet
    /\ TurnInit
    /\ AskQuiet
    /\ RankIdle
    /\ RagQuiet
    /\ FirstQuiet
    /\ HelpQuiet
    /\ KeyQuiet
    /\ SweepQuiet
    /\ AliasQuiet

\* setCache(key, data, ttl)
SetCache ==
    /\ \E key \in CacheKeys, data \in CacheValues, ttl \in TtlArgs :
        /\ cache' = [cache EXCEPT ![key] =
                        [data |-> data, timestamp |-> now, ttl |-> storedTtl(ttl)]]
        /\ requested' = [requested EXCEPT ![key] = ttl]
        /\ lastOp' = Op("setCache", key, FALSE, Null)
    /\ UNCHANGED <<now, notCache>>

\* getCache(key)
GetCache ==
    /\ \E key \in CacheKeys :
        IF cache[key] = NoCacheEntry
        THEN /\ lastOp' = Op("getCache", key, FALSE, Null)
             /\ UNCHANGED <<cache, requested>>
        ELSE IF now - cache[key].timestamp > cache[key].ttl
        THEN /\ cache' = [cache EXCEPT ![key] = NoCacheEntry]
             /\ requested' = [requested EXCEPT ![key] = -1]
             /\ lastOp' = Op("getCache", key, FALSE, Null)
        ELSE /\ lastOp' = Op("getCache", key, TRUE, cache[key].data)
             /\ UNCHANGED <<cache, requested>>
    /\ UNCHANGED <<now, notCache>>

\* deleteCache(key)
DeleteCache ==
    /\ \E key \in CacheKeys :
        /\ cache' = [cache EXCEPT ![key] = NoCacheEntry]
        /\ requested' = [requested EXCEPT ![key] = -1]
        /\ lastOp' = Op("deleteCache", key, FALSE, Null)
    /\ UNCHANGED <<now, notCache>>

\* The body shared by updateHistoryCache and updateStateCache.
UpdateEntry(name, key, data) ==
    IF cache[key] = NoCacheEntry
    THEN /\ lastOp' = Op(name, key, FALSE, Null)
         /\ UNCHANGED <<cache, requested>>
    ELSE IF now - cache[key].timestamp <= cache[key].ttl
    THEN /\ cache' = [cache EXCEPT ![key] = updatedEntry(cache[key], data, now)]
         /\ lastOp' = Op(name, key, TRUE, Null)
         /\ UNCHANGED requested
    ELSE /\ cache' = [cache EXCEPT ![key] = NoCacheEntry]
         /\ requested' = [requested EXCEPT ![key] = -1]
         /\ lastOp' = Op(name, key, FALSE, Null)

\* updateHistoryCache(userId, message, maxMessages)
UpdateHistoryCache ==
    /\ \E userId \in UserIds, message \in Messages, maxMessages \in {1, MaxMessages} :
        LET key == getConversationHistoryKey(userId)
        IN  UpdateEntry("updateHistoryCache", key,
                        appendCapped(cache[key].data, message, maxMessages))
    /\ UNCHANGED <<now, notCache>>

\* updateStateCache(userId, newState)
UpdateStateCache ==
    /\ \E userId \in UserIds, newState \in {Scalar("s1"), Scalar("s2")} :
        UpdateEntry("updateStateCache", getUserStateKey(userId), newState)
    /\ UNCHANGED <<now, notCache>>

\* Date.now() moves on: one millisecond past a half minute, or to the next
\* half minute.
CacheTick ==
    /\ \/ /\ now % DEFAULT_TTL.conversationHistory = 0
          /\ now' = now + 1
       \/ /\ now < MaxHalfMinutes * DEFAULT_TTL.conversationHistory
          /\ now' = (now \div DEFAULT_TTL.conversationHistory + 1)
                        * DEFAULT_TTL.conversationHistory
    /\ UNCHANGED <<cacheVars, notCache>>

CacheNext ==
    \/ SetCache
    \/ GetCache
    \/ DeleteCache
    \/ UpdateHistoryCache
    \/ UpdateStateCache
    \/ CacheTick

SpecCache == CacheInit /\ [][CacheNext]_vars

(***************************************************************************)
(* index.js POST /api/ask for one user, several requests at a time: the    *)
(* history read through getHistoryCached, the completion, the two message  *)
(* saves each followed by updateHistoryCache.  A store call is two steps:  *)
(* the store serves it, and later the handler goes on.                     *)
(***************************************************************************)
HistKey == getConversationHistoryKey(<<"a">>)

HistInit ==
    /\ HistQuiet
    /\ TrimQuiet
    /\ MemQuiet
    /\ UsersQuiet
    /\ SessQuiet
    /\ CosQuiet
    /\ HitQuiet
    /\ CacheQuiet
    /\ TurnInit
    /\ AskQuiet
    /\ RankIdle
    /\ RagQuiet
    /\ FirstQuiet
    /\ HelpQuiet
    /\ KeyQuiet
    /\ SweepQuiet
    /\ AliasQuiet

\* getHistoryCached up to its return or its await: 311-331.
ReqStart(r) ==
    /\ req[r].pc = "idle"
    /\ started < MaxRequests
    /\ started' = started + 1
    /\ IF entryLive(cache[HistKey], now)
       THEN /\ req' = [req EXCEPT ![r] = [IdleReq EXCEPT !.pc = "answering",
                          !.history = cache[HistKey].data.items, !.cached = TRUE]]
            /\ UNCHANGED cache
       ELSE /\ req' = [req EXCEPT ![r] = [IdleReq EXCEPT !.pc = "loading"]]
            /\ cache' = [cache EXCEPT ![HistKey] = NoCacheEntry]
    /\ UNCHANGED <<now, store, nextId, appended, notHist>>

\* The store serves the history query, or fails it.
ReqStoreRead(r) ==
    /\ req[r].pc = "loading"
    /\ \E ok \in BOOLEAN :
        req' = [req EXCEPT ![r].pc = "read",
                           ![r].loaded = getUserConversationHistory(store, MAX_HISTORY_MESSAGES, ok)]
    /\ UNCHANGED <<now, cache, store, nextId, appended, started, notHist>>

\* getHistoryCached after its await: 333-336.
ReqLoadReturns(r) ==
    /\ req[r].pc = "read"
    /\ cache' = [cache EXCEPT ![HistKey] =
                    [data |-> ArrayOf(req[r].loaded), timestamp |-> now,
                     ttl |-> storedTtl(DEFAULT_TTL.conversationHistory)]]
    /\ req' = [req EXCEPT ![r].pc = "answering", ![r].history = req[r].loaded,
                          ![r].loaded = <<>>]
    /\ UNCHANGED <<now, store, nextId, appended, started, notHist>>

\* The completion call: it fails (500, nothing is saved) or gives an answer.
ReqCompletion(r) ==
    /\ req[r].pc = "answering"
    /\ \E ok \in BOOLEAN :
        req' = [req EXCEPT ![r] = IF ok THEN [IdleReq EXCEPT !.pc = "saveUser"]
                                        ELSE IdleReq]
    /\ UNCHANGED <<now, cache, store, nextId, appended, started, notHist>>

\* The store serves saveChatMessage's add, or fails it.
ReqStoreWrite(r) ==
    /\ req[r].pc \in {"saveUser", "saveAssistant"}
    /\ \E ok \in BOOLEAN :
        /\ store' = saveChatMessage(store, nextId, ok)
        /\ req' = [req EXCEPT ![r].pc = IF req[r].pc = "saveUser"
                                        THEN "savedUser" ELSE "savedAssistant",
                              ![r].msg = IF ok THEN nextId ELSE Unsaved,
                              ![r].stored = ok]
        /\ nextId' = IF ok THEN nextId + 1 ELSE nextId
    /\ UNCHANGED <<now, cache, appended, started, notHist>>

\* saveChatMessage has returned: updateHistoryCache, 605 and 615.
ReqSaveReturns(r) ==
    /\ req[r].pc \in {"savedUser", "savedAssistant"}
    /\ cache' = [cache EXCEPT ![HistKey] =
                    IF cache[HistKey] = NoCacheEntry THEN NoCacheEntry
                    ELSE IF entryLive(cache[HistKey], now)
                    THEN updatedEntry(cache[HistKey],
                             appendCapped(cache[HistKey].data, req[r].msg,
                                          MAX_STORED_MESSAGES_PER_USER), now)
                    ELSE NoCacheEntry]
    /\ appended' = IF req[r].stored THEN appended \cup {req[r].msg} ELSE appended
    /\ req' = [req EXCEPT ![r] = IF req[r].pc = "savedUser"
                                 THEN [IdleReq EXCEPT !.pc = "saveAssistant"]
                                 ELSE IdleReq]
    /\ UNCHANGED <<now, store, nextId, started, notHist>>

\* The TTL of the conversation-history entry runs out.
HistTick ==
    /\ now < MaxHalfMinutes * (DEFAULT_TTL.conversationHistory + 1)
    /\ now' = now + DEFAULT_TTL.conversationHistory + 1
    /\ UNCHANGED <<cache, histVars, notHist>>

HistNext ==
    \/ \E r \in Slots : ReqStart(r)
    \/ \E r \in Slots : ReqStoreRead(r)
    \/ \E r \in Slots : ReqLoadReturns(r)
    \/ \E r \in Slots : ReqCompletion(r)
    \/ \E r \in Slots : ReqStoreWrite(r)
    \/ \E r \in Slots : ReqSaveReturns(r)
    \/ HistTick

SpecHist == HistInit /\ [][HistNext]_vars

\* C23: the cached conversation history holds no message that is absent
\* from the store.
C23_CachedMessagesAreStored ==
    \A i \in 1..Len(cache[HistKey].data.items) :
        \E j \in 1..Len(store) : store[j] = cache[HistKey].data.items[i]

\* C27: the cached conversation history never holds the same stored message
\* twice.
C27_NoDuplicateInCache ==
    \A i, j \in 1..Len(cache[HistKey].data.items) :
        (i # j /\ cache[HistKey].data.items[i] # Unsaved)
            => cache[HistKey].data.items[i] # cache[HistKey].data.items[j]

(***************************************************************************)
(* History limiting applied to every loaded history of a few messages:     *)
(* empty, short, long, and long enough to pass the budget alone.           *)
(***************************************************************************)
ContentLengths == {0, 40, 2000, 5961}

MixedHistories == UNION {[1..n -> ContentLengths] : n \in 0..MaxLoaded}

UniformHistories == {[i \in 1..n |-> l] : n \in 0..MaxRecent, l \in {0, 40}}

Histories == {old \o recent : old \in MixedHistories, recent \in UniformHistories}

TrimInit ==
    /\ conversationHistory \in Histories
    /\ limitedHistory = <<>>
    /\ limited = FALSE
    /\ TurnInit
    /\ AskQuiet
    /\ RankIdle
    /\ RagQuiet
    /\ CacheQuiet
    /\ HistQuiet
    /\ MemQuiet
    /\ UsersQuiet
    /\ SessQuiet
    /\ CosQuiet
    /\ HitQuiet
    /\ FirstQuiet
    /\ HelpQuiet
    /\ KeyQuiet
    /\ SweepQuiet
    /\ AliasQuiet

LimitHistory ==
    /\ ~limited
    /\ limitedHistory' = limitHistory(conversationHistory)
    /\ limited' = TRUE
    /\ UNCHANGED <<conversationHistory, notTrim>>

TrimNext == LimitHistory

SpecTrim == TrimInit /\ [][TrimNext]_vars

(***************************************************************************)
(* chatMemory.js: saveChatMessage calls with their pruning pass, and        *)
(* getUserConversationHistory calls, for two users.  Every store call can  *)
(* fail.                                                                   *)
(***************************************************************************)
MemInit ==
    /\ version \in Versions
    /\ storedCap \in {1, MaxStoredCap}
    /\ chatMessages = {}
    /\ nextDoc = 1
    /\ job = [r \in Slots |-> IdleJob]
    /\ lastRead = NoRead
    /\ TurnInit
    /\ AskQuiet
    /\ RankIdle
    /\ RagQuiet
    /\ CacheQuiet
    /\ HistQuiet
    /\ TrimQuiet
    /\ UsersQuiet
    /\ SessQuiet
    /\ CosQuiet
    /\ HitQuiet
    /\ FirstQuiet
    /\ HelpQuiet
    /\ KeyQuiet
    /\ SweepQuiet
    /\ AliasQuiet

\* saveChatMessage up to the return of collection.add: 31-49.
SaveAdd(r) ==
    /\ job[r].pc = "idle"
    /\ nextDoc <= MaxAdded
    /\ \E userId \in StoreUserIds, ok \in BOOLEAN :
        IF ok
        THEN /\ chatMessages' = chatMessages \cup {[id |-> nextDoc, user |-> normalizeUserId(userId)]}
             /\ nextDoc' = nextDoc + 1
             /\ job' = [job EXCEPT ![r] = [IdleJob EXCEPT !.pc = "added", !.id = nextDoc,
                                              !.user = normalizeUserId(userId)]]
        ELSE /\ job' = [job EXCEPT ![r] = [IdleJob EXCEPT !.failed = TRUE]]
             /\ UNCHANGED <<chatMessages, nextDoc>>
    /\ lastRead' = NoRead
    /\ UNCHANGED <<version, storedCap, notMem>>

\* cleanupOldMessages: its query returns, or fails.
PruneQuery(r) ==
    /\ job[r].pc = "added"
    /\ \/ \E snapshot \in PruneSnapshots(version, UserDocs(chatMessages, job[r].user), storedCap) :
            LET del == messagesToDelete(version, snapshot, storedCap)
            IN  job' = [job EXCEPT ![r] = IF del = {} THEN IdleJob
                                          ELSE [@ EXCEPT !.pc = "deleting", !.toDelete = del]]
       \/ job' = [job EXCEPT ![r] = [IdleJob EXCEPT !.failed = TRUE]]
    /\ lastRead' = NoRead
    /\ UNCHANGED <<version, storedCap, chatMessages, nextDoc, notMem>>

\* cleanupOldMessages: a batch of deletes is committed, or fails.
PruneCommit(r) ==
    /\ job[r].pc = "deleting"
    /\ \/ LET batch == IF version = "awaited" THEN job[r].toDelete
                       ELSE Oldest(job[r].toDelete, BATCH_SIZE)
              rest == job[r].toDelete \ batch
          IN  /\ chatMessages' = chatMessages \ batch
              /\ job' = [job EXCEPT ![r] = IF rest = {} THEN IdleJob
                                             ELSE [@ EXCEPT !.toDelete = rest]]
       \/ /\ job' = [job EXCEPT ![r] = [IdleJob EXCEPT !.failed = TRUE]]
          /\ UNCHANGED chatMessages
    /\ lastRead' = NoRead
    /\ UNCHANGED <<version, storedCap, nextDoc, notMem>>

\* getUserConversationHistory(userId, limit)
ReadHistory ==
    /\ \E userId \in StoreUserIds, limit \in 1..MaxLimit :
        LET user == normalizeUserId(userId)
        IN  \/ \E snapshot \in HistorySnapshots(version, UserDocs(chatMessages, user), limit, storedCap) :
                 lastRead' = [user |-> user, limit |-> limit, ok |-> TRUE,
                              result |-> recentMessages(snapshot, limit)]
            \/ lastRead' = [user |-> user, limit |-> limit, ok |-> FALSE, result |-> <<>>]
    /\ UNCHANGED <<version, storedCap, chatMessages, nextDoc, job, notMem>>

MemNext ==
    \/ \E r \in Slots : SaveAdd(r)
    \/ \E r \in Slots : PruneQuery(r)
    \/ \E r \in Slots : PruneCommit(r)
    \/ ReadHistory

SpecMem == MemInit /\ [][MemNext]_vars

\* A save and its pruning pass end without a store error, and the user has
\* saved no later message meanwhile.
SaveCompletes(r) ==
    /\ job[r].pc # "idle"
    /\ job'[r].pc = "idle"
    /\ ~job'[r].failed
    /\ \A d \in UserDocs(chatMessages', job[r].user) : d.id <= job[r].id

\* C17: once saveChatMessage and the pruning pass it started have completed
\* without store errors, the user has at most MAX_STORED_MESSAGES_PER_USER
\* stored messages, every deleted message is older than every message the
\* user retains, and no other user's message is deleted.
C17_PruneKeepsNewest ==
    [][/\ \A r \in Slots :
            SaveCompletes(r) =>
                Cardinality(UserDocs(chatMessages', job[r].user)) <= storedCap
       /\ \A d \in chatMessages \ chatMessages' :
            /\ \E r \in Slots : job[r].pc = "deleting" /\ job[r].user = d.user
            /\ \A kept \in UserDocs(chatMessages', d.user) : d.id < kept.id]_vars

\* C18: getUserConversationHistory returns the limit most recent messages
\* of the user in chronological order, whenever the user has at most
\* MAX_STORED_MESSAGES_PER_USER stored messages.
C18_ReadReturnsMostRecent ==
    [][(/\ lastRead' # lastRead
        /\ lastRead'.ok
        /\ Cardinality(UserDocs(chatMessages, lastRead'.user)) <= storedCap)
       => lastRead'.result =
            SortAsc(Newest(UserDocs(chatMessages, lastRead'.user), lastRead'.limit))]_vars

\* performRAGWork has rejected with an error that has code 8 or a message
\* containing "Quota exceeded" or "RESOURCE_EXHAUSTED".
QuotaFailure ==
    /\ workPc = "settled"
    /\ \/ raised.code = 8
       \/ Includes(raised.message, "Quota exceeded")
       \/ Includes(raised.message, "RESOURCE_EXHAUSTED")

\* C20 as stated: after a quota failure of the pipeline queryRAG has resolved
\* with no chunks, no sources and status "quota_exceeded", with or without a
\* deadline and a signal.
C20_QuotaFailureGivesQuotaStatus ==
    QuotaFailure => ragResult = EmptyResult("quota_exceeded")

\* C20: after a quota failure of the pipeline queryRAG has resolved with no
\* chunks and no sources; the status is "timeout" when the signal was
\* aborted before the failure, "quota_exceeded" when neither the signal was
\* aborted nor the deadline has fired, and one of the two otherwise.
C20_QuotaFailureUnlessTimedOut ==
    QuotaFailure =>
        /\ ragResult \in {EmptyResult("quota_exceeded"), EmptyResult("timeout")}
        /\ aborted => ragResult = EmptyResult("timeout")
        /\ (~aborted /\ timer # "fired") => ragResult = EmptyResult("quota_exceeded")

C20_Witness ==
    /\ QuotaFailure
    /\ raised.code = 0
    /\ ragCall.useTimeout
    /\ ragCall.hasSignal
    /\ ragResult = EmptyResult("quota_exceeded")

(***************************************************************************)
(* index.js: ask, streaming ask and wipe requests of several users, each   *)
(* step recording what it uses.                                             *)
(***************************************************************************)
UsersInit ==
    /\ handling = [u \in Users |-> "idle"]
    /\ touched = [u \in Users |-> {}]
    /\ TurnInit
    /\ AskQuiet
    /\ RankIdle
    /\ RagQuiet
    /\ CacheQuiet
    /\ HistQuiet
    /\ TrimQuiet
    /\ MemQuiet
    /\ SessQuiet
    /\ CosQuiet
    /\ HitQuiet
    /\ FirstQuiet
    /\ HelpQuiet
    /\ KeyQuiet
    /\ SweepQuiet
    /\ AliasQuiet

\* POST /api/ask and the streaming handler up to the parallel reads.
UserAskReads ==
    /\ \E email \in Emails :
        LET user == rawEmailOf(email)
        IN  /\ handling[user] = "idle"
            /\ handling' = [handling EXCEPT ![user] = "loaded"]
            /\ touched' = [touched EXCEPT ![user] = @ \cup parallelReads(user)]
    /\ UNCHANGED notUsers

\* The retrieval, skipped on a diagnosis turn or with retrieval disabled.
UserAskRetrieval ==
    /\ \E user \in Users, q \in Queries, retrieve \in BOOLEAN :
        /\ handling[user] = "loaded"
        /\ handling' = [handling EXCEPT ![user] = "answering"]
        /\ touched' = [touched EXCEPT ![user] =
                          @ \cup (IF retrieve THEN retrievalUses(q, Statistics) ELSE {})]
    /\ UNCHANGED notUsers

\* The saves and cache updates after the completion.
UserAskWrites ==
    /\ \E user \in Users :
        /\ handling[user] = "answering"
        /\ handling' = [handling EXCEPT ![user] = "idle"]
        /\ touched' = [touched EXCEPT ![user] = @ \cup finalWrites(user)]
    /\ UNCHANGED notUsers

\* DELETE /api/chat-history/:email
UserWipe ==
    /\ \E email \in Emails, deleted \in BOOLEAN :
        LET user == rawEmailOf(email)
        IN  /\ touched' = [touched EXCEPT ![user] = @ \cup wipeUses(user, deleted)]
            /\ UNCHANGED handling
    /\ UNCHANGED notUsers

UsersNext == UserAskReads \/ UserAskRetrieval \/ UserAskWrites \/ UserWipe

SpecUsers == UsersInit /\ [][UsersNext]_vars

\* The locations two users' requests both used.
Shared(a, b) ==
    {x \in touched[a] : \E y \in touched[b] : x.store = y.store /\ x.key = y.key}

SessInit ==
    /\ sess = [r \in Slots |-> IdleTurn]
    /\ wipe = NoWipe
    /\ TurnInit
    /\ AskQuiet
    /\ RankIdle
    /\ RagQuiet
    /\ CacheQuiet
    /\ HistQuiet
    /\ TrimQuiet
    /\ MemQuiet
    /\ UsersQuiet
    /\ CosQuiet
    /\ HitQuiet
    /\ FirstQuiet
    /\ HelpQuiet
    /\ KeyQuiet
    /\ SweepQuiet
    /\ AliasQuiet

\* getStateCached and getHistoryCached: 411-423.  A live entry is returned;
\* otherwise the store is read (loadUserState gives the default state on an
\* error, getUserConversationHistory an empty history) and the entry is set.
SessReads(r) ==
    /\ sess[r].pc = "idle"
    /\ started < MaxTurns
    /\ started' = started + 1
    /\ \E stateOk \in BOOLEAN, historyOk \in BOOLEAN :
        LET loaded == IF stateOk THEN userState ELSE defaultUserState
            state == IF entryLive(cache[StateKey], now) THEN cache[StateKey].data
                     ELSE loaded
        IN  /\ sess' = [sess EXCEPT ![r] = [pc |-> "read", state |-> state,
                                            next |-> state, saved |-> FALSE]]
            /\ cache' = [cache EXCEPT
                 ![StateKey] = IF entryLive(cache[StateKey], now) THEN @
                               ELSE [data |-> loaded, timestamp |-> now,
                                     ttl |-> storedTtl(DEFAULT_TTL.userState)],
                 ![HistKey] = IF entryLive(cache[HistKey], now) THEN @
                              ELSE [data |-> ArrayOf(getUserConversationHistory(store, MAX_HISTORY_MESSAGES, historyOk)),
                                    timestamp |-> now,
                                    ttl |-> storedTtl(DEFAULT_TTL.conversationHistory)]]
            /\ wipe' = [wipe EXCEPT !.alone = FALSE]
    /\ UNCHANGED <<userState, now, store, nextId, notSess>>

\* decideTurn(prompt, userState): 448.
SessDecide(r) ==
    /\ sess[r].pc = "read"
    /\ \E p \in Prompts :
        sess' = [sess EXCEPT ![r].pc = "decided",
                             ![r].next = decideTurn(p, sess[r].state).nextState]
    /\ UNCHANGED <<userState, now, cache, store, nextId, started, wipe, notSess>>

\* The completion, the two saveChatMessage calls with updateHistoryCache,
\* and the response: 596-651.  The state save has been started.
SessSaves(r) ==
    /\ sess[r].pc = "decided"
    /\ \E ok \in BOOLEAN :
        /\ store' = saveChatMessage(saveChatMessage(store, nextId, ok), nextId + 1, ok)
        /\ nextId' = IF ok THEN nextId + 2 ELSE nextId
        /\ cache' = [cache EXCEPT ![HistKey] =
                        IF entryLive(@, now)
                        THEN updatedEntry(@,
                                 appendCapped(appendCapped(@.data,
                                         IF ok THEN nextId ELSE Unsaved,
                                         MAX_STORED_MESSAGES_PER_USER),
                                     IF ok THEN nextId + 1 ELSE Unsaved,
                                     MAX_STORED_MESSAGES_PER_USER), now)
                        ELSE NoCacheEntry]
    /\ sess' = [sess EXCEPT ![r].pc = "saving"]
    /\ UNCHANGED <<userState, now, started, wipe, notSess>>

\* saveUserState(db, turn.nextState) ends; updateStateCache after a
\* successful write: 636-642.
SessStateSaved(r) ==
    /\ sess[r].pc = "saving"
    /\ \E ok \in BOOLEAN :
        /\ IF ok
           THEN /\ userState' = mergedState(userState, sess[r].next)
                /\ cache' = [cache EXCEPT ![StateKey] =
                                IF entryLive(@, now) THEN updatedEntry(@, sess[r].next, now)
                                ELSE NoCacheEntry]
           ELSE UNCHANGED <<userState, cache>>
        /\ sess' = [sess EXCEPT ![r].pc = "done", ![r].saved = ok]
    /\ UNCHANGED <<now, store, nextId, started, wipe, notSess>>

\* Nothing of the turn is left.
SessEnds(r) ==
    /\ sess[r].pc = "done"
    /\ sess' = [sess EXCEPT ![r] = IdleTurn]
    /\ UNCHANGED <<userState, now, cache, store, nextId, started, wipe, notSess>>

\* DELETE /api/chat-history/:email up to the return of deleteUserHistory:
\* 323-347.
WipeDelete ==
    /\ wipe.pc = "idle"
    /\ \E ok \in BOOLEAN :
        /\ store' = IF ok THEN <<>> ELSE store
        /\ wipe' = [pc |-> IF ok THEN "deleted" ELSE "failed",
                    alone |-> \A r \in Slots : sess[r].pc \in {"idle", "done"}]
    /\ UNCHANGED <<userState, now, cache, nextId, started, sess, notSess>>

\* saveUserState(db, defaultUserState(rawEmail)) ends, then the two
\* deleteCache calls and the response: 349-361.
WipeReset ==
    /\ wipe.pc = "deleted"
    /\ \E ok \in BOOLEAN :
        userState' = IF ok THEN mergedState(userState, defaultUserState) ELSE userState
    /\ cache' = [cache EXCEPT ![HistKey] = NoCacheEntry, ![StateKey] = NoCacheEntry]
    /\ wipe' = [wipe EXCEPT !.pc = "success"]
    /\ UNCHANGED <<now, store, nextId, started, sess, notSess>>

\* The wipe's response has gone out.
WipeEnds ==
    /\ wipe.pc \in {"success", "failed"}
    /\ wipe' = NoWipe
    /\ UNCHANGED <<userState, now, cache, store, nextId, started, sess, notSess>>

SessNext ==
    \/ \E r \in Slots : SessReads(r)
    \/ \E r \in Slots : SessDecide(r)
    \/ \E r \in Slots : SessSaves(r)
    \/ \E r \in Slots : SessStateSaved(r)
    \/ \E r \in Slots : SessEnds(r)
    \/ WipeDelete
    \/ WipeReset
    \/ WipeEnds

SpecSess == SessInit /\ [][SessNext]_vars

\* C21: when the wipe reports success and no other request of the user was
\* in flight during it, the user has no stored message, the stored state is
\* defaultUserState, the conv_history and user_state cache entries are
\* absent, and every prompt is decided as for a fresh user.
C21_WipeResetsUser ==
    (wipe.pc = "success" /\ wipe.alone) =>
        /\ store = <<>>
        /\ userState = defaultUserState
        /\ cache[HistKey] = NoCacheEntry
        /\ cache[StateKey] = NoCacheEntry
        /\ \A p \in Prompts : decideTurn(p, userState) = decideTurn(p, defaultUserState)

\* C30: turns of one user are not serialized.  Every turn's nextState is
\* decided from the state the turn read at its start, and a state write that
\* succeeds puts that nextState into the stored topic and phase and into the
\* live cache entry, whatever another turn has written since the read.
C30_StateWriteReplaces ==
    [][\A r \in Slots :
          /\ sess[r].pc \in {"decided", "saving"} =>
                \E p \in Prompts : sess[r].next = decideTurn(p, sess[r].state).nextState
          /\ (sess[r].pc = "saving" /\ sess'[r].pc = "done" /\ sess'[r].saved) =>
                /\ userState'.currentTopic = sess[r].next.currentTopic
                /\ userState'.phase = sess[r].next.phase
                /\ entryLive(cache[StateKey], now) => cache'[StateKey].data = sess[r].next]_vars

\* Two turns have read the same state and decided different next states;
\* both writes succeeded, and the cache and the stored topic and phase are
\* those of one turn only.
C30_Witness ==
    \E r, q \in Slots :
        /\ r # q
        /\ sess[r].pc = "done" /\ sess[q].pc = "done"
        /\ sess[r].saved /\ sess[q].saved
        /\ sess[r].state = sess[q].state
        /\ sess[r].next.currentTopic # sess[q].next.currentTopic
        /\ cache[StateKey].data = sess[q].next
        /\ userState.currentTopic = sess[q].next.currentTopic

\* C32: whenever no turn and no wipe of the user is in flight and the
\* user_state cache entry is live, the entry's data is the stored UserState.
C32_CacheMirrorsStoredState ==
    (/\ \A r \in Slots : sess[r].pc = "idle"
     /\ wipe.pc = "idle"
     /\ entryLive(cache[StateKey], now))
        => cache[StateKey].data = userState

(***************************************************************************)
(* cosineSimilarity applied to every pair of small vectors.                *)
(***************************************************************************)
CosInit ==
    /\ vecA \in Vectors
    /\ vecB \in Vectors
    /\ cosine = NotComputed
    /\ HitQuiet
    /\ TurnInit
    /\ AskQuiet
    /\ RankIdle
    /\ RagQuiet
    /\ CacheQuiet
    /\ HistQuiet
    /\ TrimQuiet
    /\ MemQuiet
    /\ UsersQuiet
    /\ SessQuiet
    /\ FirstQuiet
    /\ HelpQuiet
    /\ KeyQuiet
    /\ SweepQuiet
    /\ AliasQuiet

CosineSimilarity ==
    /\ cosine = NotComputed
    /\ cosine' = cosineSimilarity(vecA, vecB)
    /\ UNCHANGED <<vecA, vecB, notCos>>

CosNext == CosineSimilarity

SpecCos == CosInit /\ [][CosNext]_vars

AllZero(v) == \A i \in 1..Len(v) : v[i] = 0

\* C22: cosineSimilarity returns 0 whenever the two vectors differ in length
\* or one of them has only zero components.
C22_ZeroForMismatchOrZeroNorm ==
    (cosine # NotComputed /\ (Len(vecA) # Len(vecB) \/ AllZero(vecA) \/ AllZero(vecB)))
        => cosine = 0

C22_Witness ==
    /\ cosine = 0
    /\ Len(vecA) # Len(vecB)
    /\ ~AllZero(vecA)
    /\ ~AllZero(vecB)

(***************************************************************************)
(* One user's requests one after the other, with no store fault and        *)
(* MAX_HISTORY_MESSAGES set in the environment: getHistoryCached, then     *)
(* the two saves each followed by updateHistoryCache.                      *)
(***************************************************************************)
HitInit ==
    /\ historyLimit \in 1..MaxHistoryLimit
    /\ served = NoHit
    /\ HistQuiet
    /\ TrimQuiet
    /\ MemQuiet
    /\ UsersQuiet
    /\ SessQuiet
    /\ CosQuiet
    /\ CacheQuiet
    /\ TurnInit
    /\ AskQuiet
    /\ RankIdle
    /\ RagQuiet
    /\ FirstQuiet
    /\ HelpQuiet
    /\ KeyQuiet
    /\ SweepQuiet
    /\ AliasQuiet

\* getHistoryCached 311-342: the cached array, or the loaded one.
GetHistoryCached ==
    /\ served.pc = "idle"
    /\ started < MaxRequests
    /\ started' = started + 1
    /\ IF entryLive(cache[HistKey], now)
       THEN /\ served' = [pc |-> "got", cached |-> TRUE,
                       history |-> cache[HistKey].data.items]
            /\ UNCHANGED cache
       ELSE LET history == getUserConversationHistory(store, historyLimit, TRUE)
            IN  /\ cache' = [cache EXCEPT ![HistKey] =
                                [data |-> ArrayOf(history), timestamp |-> now,
                                 ttl |-> storedTtl(DEFAULT_TTL.conversationHistory)]]
                /\ served' = [pc |-> "got", cached |-> FALSE, history |-> history]
    /\ UNCHANGED <<now, store, nextId, historyLimit, notHit>>

\* index.js 604-605 and 614-615: saveChatMessage, then updateHistoryCache
\* with maxStoredMessages.
SaveAndAppend ==
    /\ served.pc \in {"got", "savedUser"}
    /\ store' = saveChatMessage(store, nextId, TRUE)
    /\ nextId' = nextId + 1
    /\ cache' = [cache EXCEPT ![HistKey] =
                    IF cache[HistKey] = NoCacheEntry THEN NoCacheEntry
                    ELSE IF entryLive(cache[HistKey], now)
                    THEN updatedEntry(cache[HistKey],
                             appendCapped(cache[HistKey].data, nextId,
                                          MAX_STORED_MESSAGES_PER_USER), now)
                    ELSE NoCacheEntry]
    /\ served' = IF served.pc = "got" THEN [NoHit EXCEPT !.pc = "savedUser"] ELSE NoHit
    /\ UNCHANGED <<now, started, historyLimit, notHit>>

\* The TTL of the conversation-history entry runs out between two requests.
HitTick ==
    /\ served.pc = "idle"
    /\ now < MaxHalfMinutes * (DEFAULT_TTL.conversationHistory + 1)
    /\ now' = now + DEFAULT_TTL.conversationHistory + 1
    /\ UNCHANGED <<cache, store, nextId, started, hitVars, notHit>>

HitNext ==
    \/ GetHistoryCached
    \/ SaveAndAppend
    \/ HitTick

SpecHit == HitInit /\ [][HitNext]_vars

\* C26 (as claimed): a getHistoryCached cache hit returns the message sequence
\* a fresh getUserConversationHistory load would return at that moment, and
\* never more than MAX_HISTORY_MESSAGES messages.
C26_HitEqualsFreshLoad ==
    (served.pc = "got" /\ served.cached)
        => /\ served.history = getUserConversationHistory(store, historyLimit, TRUE)
           /\ Len(served.history) <= historyLimit

(***************************************************************************)
(* One user's requests, each with its first-login check:                   *)
(* getFirstLoginCached around checkAndMarkFirstLogin.  A store call is two *)
(* steps: the store serves it, and later the request goes on.              *)
(***************************************************************************)
notFirst == <<turnVars, askVars, rankVars, ragRest, cacheVars, histVars, trimVars, memVars,
              userVars, sessVars, cosVars, hitVars,
          helpVars,
          keyVars,
          sweepVars,
          aliasVars>>

FirstInit ==
    /\ now = 0
    /\ FirstQuiet
    /\ TurnInit
    /\ AskQuiet
    /\ RankIdle
    /\ RagQuiet
    /\ CacheQuiet
    /\ HistQuiet
    /\ TrimQuiet
    /\ MemQuiet
    /\ UsersQuiet
    /\ SessQuiet
    /\ CosQuiet
    /\ HitQuiet
    /\ HelpQuiet
    /\ KeyQuiet
    /\ SweepQuiet
    /\ AliasQuiet

\* The request reports first_login to the client.
Reports(first_login) ==
    firstSeen' = IF first_login THEN firstSeen + 1 ELSE firstSeen

\* getFirstLoginCached up to its return or its await: 427-451.
LoginStart(r) ==
    /\ login[r].pc = "idle"
    /\ logins < MaxLogins
    /\ logins' = logins + 1
    /\ IF entryLive(flCache, now)
       THEN /\ Reports(flCache.data.items[1])
            /\ UNCHANGED <<flCache, login>>
       ELSE /\ flCache' = NoCacheEntry
            /\ login' = [login EXCEPT ![r].pc = "get"]
            /\ UNCHANGED firstSeen
    /\ UNCHANGED <<now, profile, notFirst>>

\* The store serves ref.get(), or fails it: 292-293, 302-309.
LoginStoreGet(r) ==
    /\ login[r].pc = "get"
    /\ \E ok \in BOOLEAN :
        login' = [login EXCEPT ![r] =
                     IF ok THEN [pc |-> "write", exists |-> profile, result |-> FALSE]
                     ELSE [pc |-> "loaded", exists |-> FALSE, result |-> FALSE]]
    /\ UNCHANGED <<now, profile, flCache, logins, firstSeen, notFirst>>

\* The store serves ref.set() or ref.update(), or fails it: 295-301.
LoginStoreWrite(r) ==
    /\ login[r].pc = "write"
    /\ \E ok \in BOOLEAN :
        /\ profile' = IF ok THEN TRUE ELSE profile
        /\ login' = [login EXCEPT ![r].pc = "loaded",
                                  ![r].result = ok /\ ~login[r].exists]
    /\ UNCHANGED <<now, flCache, logins, firstSeen, notFirst>>

\* checkAndMarkFirstLogin has returned: 452-457.
LoginReturns(r) ==
    /\ login[r].pc = "loaded"
    /\ flCache' = [data |-> Scalar(valueToCache(login[r].result)), timestamp |-> now,
                   ttl |-> storedTtl(DEFAULT_TTL.firstLogin)]
    /\ Reports(login[r].result)
    /\ login' = [login EXCEPT ![r] = IdleLogin]
    /\ UNCHANGED <<now, profile, logins, notFirst>>

\* The TTL of the first_login entry runs out.
LoginTick ==
    /\ now < MaxHalfMinutes * (DEFAULT_TTL.firstLogin + 1)
    /\ now' = now + DEFAULT_TTL.firstLogin + 1
    /\ UNCHANGED <<firstVars, notFirst>>

FirstNext ==
    \/ \E r \in Slots : LoginStart(r)
    \/ \E r \in Slots : LoginStoreGet(r)
    \/ \E r \in Slots : LoginStoreWrite(r)
    \/ \E r \in Slots : LoginReturns(r)
    \/ LoginTick

SpecFirst == FirstInit /\ [][FirstNext]_vars

\* C31: for one user, at most one request ever reports first_login = true.
C31_FirstLoginReportedOnce == firstSeen <= 1

(***************************************************************************)
(* cache.js: the three cache-aside helpers, one call at a time, each with  *)
(* a loader that returns any of a few results.                             *)
(***************************************************************************)
notHelp == <<turnVars, askVars, rankVars, ragRest, requested, lastOp, histVars, trimVars,
             memVars, userVars, sessVars, cosVars, hitVars, profile, login, logins,
             firstSeen,
          keyVars,
          sweepVars,
          aliasVars>>

HelpInit ==
    /\ now = 0
    /\ HelpQuiet
    /\ FirstQuiet
    /\ TurnInit
    /\ AskQuiet
    /\ RankIdle
    /\ RagQuiet
    /\ CacheQuiet
    /\ HistQuiet
    /\ TrimQuiet
    /\ MemQuiet
    /\ UsersQuiet
    /\ SessQuiet
    /\ CosQuiet
    /\ HitQuiet
    /\ KeyQuiet
    /\ SweepQuiet
    /\ AliasQuiet

\* What a loadUserStateFn returns.
LoadedStates ==
    {defaultUserState,
     [currentTopic |-> "mean", phase |-> "TEACH", diagnosedTopics |-> {"mean"}]}

\* What a getUserConversationHistoryFn returns.
LoadedHistories == {ArrayOf(<<>>), ArrayOf(<<1>>), ArrayOf(<<1, 2>>)}

\* What a checkFirstLoginFn returns in first_login.
LoadedFirstLogins == {Scalar(TRUE), Scalar(FALSE)}

Hit(name, key, data) ==
    [helper |-> name, on |-> TRUE, key |-> key, hit |-> TRUE, calls |-> 0,
     loaded |-> Null, returned |-> data]

Miss(name, key, data) ==
    [helper |-> name, on |-> TRUE, key |-> key, hit |-> FALSE, calls |-> 1,
     loaded |-> data, returned |-> data]

Off(name, key, data) ==
    [helper |-> name, on |-> FALSE, key |-> key, hit |-> FALSE, calls |-> 0,
     loaded |-> Null, returned |-> data]

\* getStateCached 279-301
HelpState ==
    /\ helps < MaxHelps
    /\ helps' = helps + 1
    /\ \E u \in UserIds, state \in LoadedStates :
        LET key == getUserStateKey(u)
        IN  IF entryLive(cache[key], now)
            THEN /\ helped' = Hit("state", key, cache[key].data)
                 /\ UNCHANGED cache
            ELSE /\ helped' = Miss("state", key, state)
                 /\ cache' = [cache EXCEPT ![key] =
                                 [data |-> state, timestamp |-> now,
                                  ttl |-> storedTtl(DEFAULT_TTL.userState)]]
    /\ UNCHANGED <<now, flCache, notHelp>>

\* getHistoryCached 311-342
HelpHistory ==
    /\ helps < MaxHelps
    /\ helps' = helps + 1
    /\ \E u \in UserIds, enabled \in BOOLEAN, history \in LoadedHistories :
        LET key == getConversationHistoryKey(u)
        IN  IF ~enabled
            THEN /\ helped' = Off("history", key, ArrayOf(<<>>))
                 /\ UNCHANGED cache
            ELSE IF entryLive(cache[key], now)
            THEN /\ helped' = Hit("history", key, cache[key].data)
                 /\ UNCHANGED cache
            ELSE /\ helped' = Miss("history", key, history)
                 /\ cache' = [cache EXCEPT ![key] =
                                 [data |-> history, timestamp |-> now,
                                  ttl |-> storedTtl(DEFAULT_TTL.conversationHistory)]]
    /\ UNCHANGED <<now, flCache, notHelp>>

\* getFirstLoginCached 427-458
HelpFirstLogin ==
    /\ helps < MaxHelps
    /\ helps' = helps + 1
    /\ \E hasDb \in BOOLEAN, result \in LoadedFirstLogins :
        LET key == getFirstLoginKey(<<"a">>)
        IN  IF ~hasDb
            THEN /\ helped' = Off("first_login", key, Scalar(FALSE))
                 /\ UNCHANGED flCache
            ELSE IF entryLive(flCache, now)
            THEN /\ helped' = Hit("first_login", key, flCache.data)
                 /\ UNCHANGED flCache
            ELSE /\ helped' = Miss("first_login", key, result)
                 /\ flCache' = [data |-> Scalar(valueToCache(result.items[1])),
                                timestamp |-> now,
                                ttl |-> storedTtl(DEFAULT_TTL.firstLogin)]
    /\ UNCHANGED <<now, cache, notHelp>>

\* Half a minute passes: the history entries expire before the others.
HelpTick ==
    /\ now < MaxHalfMinutes * (DEFAULT_TTL.conversationHistory + 1)
    /\ now' = now + DEFAULT_TTL.conversationHistory + 1
    /\ UNCHANGED <<cache, flCache, helpVars, notHelp>>

HelpNext ==
    \/ HelpState
    \/ HelpHistory
    \/ HelpFirstLogin
    \/ HelpTick

SpecHelp == HelpInit /\ [][HelpNext]_vars

\* The entry under the key of the call: before the call, after it.
EntryBefore == IF helped'.helper = "first_login" THEN flCache ELSE cache[helped'.key]

EntryAfter == IF helped'.helper = "first_login" THEN flCache' ELSE cache'[helped'.key]

HelperTtl ==
    IF helped'.helper = "state" THEN DEFAULT_TTL.userState
    ELSE IF helped'.helper = "history" THEN DEFAULT_TTL.conversationHistory
    ELSE DEFAULT_TTL.firstLogin

\* C39 (as claimed): each helper returns the data of a live entry without
\* calling the loader; on a missing or expired entry it calls the loader
\* once, stores the loader's result under the user's key with the helper's
\* TTL and returns that result.
C39_HelperIsCacheAside ==
    [][helps' # helps =>
        IF entryLive(EntryBefore, now)
        THEN /\ helped'.calls = 0
             /\ helped'.returned = EntryBefore.data
             /\ EntryAfter = EntryBefore
        ELSE /\ helped'.calls = 1
             /\ helped'.returned = helped'.loaded
             /\ EntryAfter = [data |-> helped'.loaded, timestamp |-> now,
                              ttl |-> HelperTtl]]_vars

\* C39 (amended): the same, except that getFirstLoginCached stores false
\* when the loader's first_login is true, and that getHistoryCached without
\* chat memory and getFirstLoginCached without a database return an empty
\* history and false without looking at the cache or calling the loader.
C39_HelperIsCacheAsideFirstLoginStoredFalse ==
    [][helps' # helps =>
        IF ~helped'.on
        THEN /\ helped'.helper # "state"
             /\ helped'.calls = 0
             /\ helped'.returned
                  = (IF helped'.helper = "history" THEN ArrayOf(<<>>) ELSE Scalar(FALSE))
             /\ EntryAfter = EntryBefore
        ELSE IF entryLive(EntryBefore, now)
        THEN /\ helped'.calls = 0
             /\ helped'.returned = EntryBefore.data
             /\ EntryAfter = EntryBefore
        ELSE /\ helped'.calls = 1
             /\ helped'.returned = helped'.loaded
             /\ EntryAfter =
                  [data |-> IF helped'.helper = "first_login" THEN Scalar(FALSE)
                            ELSE helped'.loaded,
                   timestamp |-> now, ttl |-> HelperTtl]]_vars

\* A first login: the loader returned true, the helper returned true and
\* the entry holds false.
C39_Witness ==
    /\ helped.helper = "first_login"
    /\ helped.calls = 1
    /\ helped.returned = Scalar(TRUE)
    /\ flCache.data = Scalar(FALSE)
    /\ flCache.timestamp = now

(***************************************************************************)
(* rag.js: two queryRAG calls within the TTL, the first of which caches    *)
(* its result.  Does the second one get the entry of the first?            *)
(***************************************************************************)
notKey == <<turnVars, askVars, rankVars, ragVars, cacheVars, histVars, trimVars, memVars,
            userVars, sessVars, cosVars, hitVars, firstVars, helpVars,
          sweepVars,
          aliasVars>>

\* Fifty characters.
LongText == [i \in 1..KEY_CHARS |-> "x"]

QueryTexts == {<<"q">>, <<"b", "_", "q">>, LongText \o <<"y">>, LongText \o <<"z">>}

CourseNames == {<<>>, <<"a", "l", "l">>, <<"s">>, <<"s", "_", "b">>}

KeyCalls == [queryText : QueryTexts, courseName : CourseNames]

KeyInit ==
    /\ keyCalls \in [1..2 -> KeyCalls]
    /\ keyed = <<>>
    /\ keyShared = "none"
    /\ HelpQuiet
    /\ FirstQuiet
    /\ TurnInit
    /\ AskQuiet
    /\ RankIdle
    /\ RagQuiet
    /\ CacheQuiet
    /\ HistQuiet
    /\ TrimQuiet
    /\ MemQuiet
    /\ UsersQuiet
    /\ SessQuiet
    /\ CosQuiet
    /\ HitQuiet
    /\ SweepQuiet
    /\ AliasQuiet

\* queryRAG 114-132 and 436-438: the first call misses and caches its result.
KeyFirstCall ==
    /\ keyed = <<>>
    /\ keyed' = <<getCacheKey(keyCalls[1].queryText, keyCalls[1].courseName)>>
    /\ UNCHANGED <<keyCalls, keyShared, notKey>>

\* queryRAG 114-132: the second call looks its key up.
KeySecondCall ==
    /\ Len(keyed) = 1
    /\ LET key == getCacheKey(keyCalls[2].queryText, keyCalls[2].courseName)
       IN  /\ keyed' = Append(keyed, key)
           /\ keyShared' = IF key = keyed[1] THEN "hit" ELSE "miss"
    /\ UNCHANGED <<keyCalls, notKey>>

KeyNext ==
    \/ KeyFirstCall
    \/ KeySecondCall

SpecKey == KeyInit /\ [][KeyNext]_vars

\* C38: a retrieval cache hit returns a result computed for the same query
\* text and the same course name.
C38_HitIsForSameQuery ==
    keyShared = "hit" => keyCalls[1] = keyCalls[2]

(***************************************************************************)
(* cache.js and rag.js: a cache that holds almost as many entries as its   *)
(* high-water mark, all written at time 0; then writes, reads and the      *)
(* passing of time.                                                        *)
(***************************************************************************)
notSweep == <<turnVars, askVars, rankVars, ragRest, cacheVars, histVars, trimVars, memVars,
              userVars, sessVars, cosVars, hitVars, firstVars, helpVars, keyVars,
          aliasVars>>

\* The ttl a write gives its entry: setCache's callers pass the history or
\* the state TTL, setCachedResult's entries live RAG_CACHE_TTL.
TtlsOf(kind) ==
    IF kind = "cache" THEN {DEFAULT_TTL.conversationHistory, DEFAULT_TTL.userState}
    ELSE {RAG_CACHE_TTL}

\* n entries written at time 0, under the keys 1..n.
Filled(kind, n) ==
    [k \in 1..(HIGH_WATER[kind] + 2) |->
        IF k <= n
        THEN [timestamp |-> 0,
              ttl |-> IF kind = "cache" /\ k % 2 = 0
                      THEN DEFAULT_TTL.conversationHistory ELSE RAG_CACHE_TTL]
        ELSE Absent]

SweepInit ==
    /\ now = 0
    /\ sweepKind \in {"cache", "ragCache"}
    /\ \E n \in {HIGH_WATER[sweepKind] - 1, HIGH_WATER[sweepKind]} :
        held = Filled(sweepKind, n)
    /\ sweepOp = NoSweepOp
    /\ sweepOps = 0
    /\ KeyQuiet
    /\ HelpQuiet
    /\ FirstQuiet
    /\ TurnInit
    /\ AskQuiet
    /\ RankIdle
    /\ RagQuiet
    /\ CacheQuiet
    /\ HistQuiet
    /\ TrimQuiet
    /\ MemQuiet
    /\ UsersQuiet
    /\ SessQuiet
    /\ CosQuiet
    /\ HitQuiet
    /\ AliasQuiet

\* The keys the calls use: one that is held, two that are new.
SweepKeys == {1, HIGH_WATER[sweepKind] + 1, HIGH_WATER[sweepKind] + 2}

\* setCache(key, data, ttl), setCachedResult(cacheKey, data)
SweepSet ==
    /\ sweepOps < MaxSweepOps
    /\ sweepOps' = sweepOps + 1
    /\ \E key \in SweepKeys, ttl \in TtlsOf(sweepKind) :
        /\ held' = setAndSweep(held, key, ttl, now, HIGH_WATER[sweepKind])
        /\ sweepOp' = [name |-> "set", key |-> key]
    /\ UNCHANGED <<now, sweepKind, notSweep>>

\* getCache(key), getCachedResult(cacheKey): an expired entry is deleted.
SweepGet ==
    /\ sweepOps < MaxSweepOps
    /\ sweepOps' = sweepOps + 1
    /\ \E key \in SweepKeys :
        /\ held' = IF held[key] # Absent /\ now - held[key].timestamp > held[key].ttl
                   THEN [held EXCEPT ![key] = Absent]
                   ELSE held
        /\ sweepOp' = [name |-> "get", key |-> key]
    /\ UNCHANGED <<now, sweepKind, notSweep>>

\* Half a minute passes.
SweepTick ==
    /\ now < (MaxHalfMinutes + 1) * DEFAULT_TTL.conversationHistory
    /\ now' = now + DEFAULT_TTL.conversationHistory
    /\ UNCHANGED <<sweepVars, notSweep>>

SweepNext ==
    \/ SweepSet
    \/ SweepGet
    \/ SweepTick

SpecSweep == SweepInit /\ [][SweepNext]_vars

\* The entry count right after the write's cache.set, before any sweep.
CountAfterSet == Count(held) + (IF held[sweepOp'.key] = Absent THEN 1 ELSE 0)

\* C40: a write that leaves the entry count above the high-water mark
\* removes every entry with now - timestamp > ttl and no other entry; a write
\* that does not, a read and the passing of time remove no entry other than
\* the expired entry a read looked up.
C40_SweepOnWritesOnly ==
    [][/\ (sweepOps' # sweepOps /\ sweepOp'.name = "set")
            => /\ held'[sweepOp'.key] # Absent
               /\ held'[sweepOp'.key].timestamp = now
               /\ IF CountAfterSet > HIGH_WATER[sweepKind]
                  THEN \A k \in DOMAIN held \ {sweepOp'.key} :
                          held'[k] = IF /\ held[k] # Absent
                                        /\ now - held[k].timestamp > held[k].ttl
                                     THEN Absent
                                     ELSE held[k]
                  ELSE \A k \in DOMAIN held \ {sweepOp'.key} : held'[k] = held[k]
       /\ (sweepOps' # sweepOps /\ sweepOp'.name = "get")
            => \A k \in DOMAIN held \ {sweepOp'.key} : held'[k] = held[k]
       /\ sweepOps' = sweepOps => held' = held]_vars

\* A write a minute after the cache was filled has swept the entries with
\* the shorter ttl and kept those whose age is their ttl.
C40_Witness ==
    /\ sweepKind = "cache"
    /\ sweepOp.name = "set"
    /\ now = RAG_CACHE_TTL
    /\ held[2] = Absent
    /\ held[3] = [timestamp |-> 0, ttl |-> RAG_CACHE_TTL]
    /\ Count(held) > 2

(***************************************************************************)
(* index.js, cache.js and topicState.js: UserState objects by reference.   *)
(* getStateCached hands out the object the cache entry holds; decideTurn   *)
(* builds nextState from it; updateStateCache puts nextState in the entry. *)
(***************************************************************************)
notAlias == <<turnVars, askVars, rankVars, ragRest, cacheVars, histVars, trimVars, memVars,
              userVars, sessVars, cosVars, hitVars, firstVars, helpVars, keyVars, sweepVars>>

AliasInit ==
    /\ now = 0
    /\ objs = <<>>
    /\ maps = <<>>
    /\ cachedObj = 0
    /\ stateObj = 0
    /\ nextObj = 0
    /\ aliasOp = "none"
    /\ SweepQuiet
    /\ KeyQuiet
    /\ HelpQuiet
    /\ FirstQuiet
    /\ TurnInit
    /\ AskQuiet
    /\ RankIdle
    /\ RagQuiet
    /\ CacheQuiet
    /\ HistQuiet
    /\ TrimQuiet
    /\ MemQuiet
    /\ UsersQuiet
    /\ SessQuiet
    /\ CosQuiet
    /\ HitQuiet

\* The UserState an object holds, its map read through the reference.
valueAt(os, ms, ref) ==
    [currentTopic |-> os[ref].currentTopic,
     phase |-> os[ref].phase,
     diagnosedTopics |-> ms[os[ref].diagnosedTopics]]

\* decideTurn 253 with a fault: nextState keeps the map of the input state.
spreadShared(ref, fresh) == ref

\* decideTurn 253: { ...diagnosedTopics } is a new map.
spread(ref, fresh) == fresh

\* getStateCached 279-301: a hit returns entry.data, the object itself; a
\* miss loads a new object, puts it in the entry and returns it.
AliasRead ==
    /\ stateObj = 0
    /\ IF cachedObj # 0
       THEN /\ stateObj' = cachedObj
            /\ aliasOp' = "getCache"
            /\ UNCHANGED <<objs, maps, cachedObj>>
       ELSE /\ Len(objs) < MaxObjects
            /\ \E loaded \in LoadedStates :
                /\ maps' = Append(maps, loaded.diagnosedTopics)
                /\ objs' = Append(objs, [currentTopic |-> loaded.currentTopic,
                                         phase |-> loaded.phase,
                                         diagnosedTopics |-> Len(maps) + 1])
            /\ cachedObj' = Len(objs) + 1
            /\ stateObj' = Len(objs) + 1
            /\ aliasOp' = "setCache"
    /\ UNCHANGED <<now, nextObj, notAlias>>

\* decideTurn(prompt, userState), 247-266: nextState is a new object, its
\* diagnosedTopics a copy of the input's map, and the marks are made in
\* nextState.diagnosedTopics.
AliasDecide ==
    /\ stateObj # 0
    /\ nextObj = 0
    /\ Len(objs) < MaxObjects
    /\ \E p \in Prompts :
        LET next   == decideTurn(p, valueAt(objs, maps, stateObj)).nextState
            from   == objs[stateObj].diagnosedTopics
            target == spread(from, Len(maps) + 1)
        IN  /\ maps' = [Append(maps, maps[from]) EXCEPT ![target] = next.diagnosedTopics]
            /\ objs' = Append(objs, [currentTopic |-> next.currentTopic,
                                     phase |-> next.phase,
                                     diagnosedTopics |-> target])
    /\ nextObj' = Len(objs) + 1
    /\ aliasOp' = "decideTurn"
    /\ UNCHANGED <<now, cachedObj, stateObj, notAlias>>

\* saveUserState and, when it succeeded and the entry is there,
\* updateStateCache(email, turn.nextState): index.js 636-642, cache.js
\* 389-412.  The request is over.
AliasUpdate ==
    /\ nextObj # 0
    /\ \E ok \in BOOLEAN :
        IF ok /\ cachedObj # 0
        THEN cachedObj' = nextObj /\ aliasOp' = "updateStateCache"
        ELSE cachedObj' = cachedObj /\ aliasOp' = "saveUserState"
    /\ stateObj' = 0
    /\ nextObj' = 0
    /\ UNCHANGED <<now, objs, maps, notAlias>>

\* deleteCache(stateCacheKey): index.js 357, cache.js 228-230.
AliasDelete ==
    /\ cachedObj # 0
    /\ cachedObj' = 0
    /\ aliasOp' = "deleteCache"
    /\ UNCHANGED <<now, objs, maps, stateObj, nextObj, notAlias>>

AliasNext ==
    \/ AliasRead
    \/ AliasDecide
    \/ AliasUpdate
    \/ AliasDelete

SpecAlias == AliasInit /\ [][AliasNext]_vars

NoState == [currentTopic |-> "absent", phase |-> "absent", diagnosedTopics |-> {}]

\* C37: decideTurn leaves the object it was given, and the diagnosedTopics
\* map of that object, as they were; the UserState the cache entry holds
\* changes only in updateStateCache, setCache or deleteCache.
C37_DecideTurnLeavesInput ==
    [][/\ (nextObj = 0 /\ nextObj' # 0) =>
            /\ objs'[stateObj] = objs[stateObj]
            /\ valueAt(objs', maps', stateObj) = valueAt(objs, maps, stateObj)
       /\ (IF cachedObj' = 0 THEN NoState ELSE valueAt(objs', maps', cachedObj'))
            # (IF cachedObj = 0 THEN NoState ELSE valueAt(objs, maps, cachedObj))
            => aliasOp' \in {"updateStateCache", "setCache", "deleteCache"}]_vars

\* decideTurn was given the object the cache entry holds and has marked a
\* topic in nextState.
C37_Witness ==
    /\ aliasOp = "decideTurn"
    /\ nextObj # 0
    /\ cachedObj # 0
    /\ stateObj = cachedObj
    /\ maps[objs[nextObj].diagnosedTopics] # maps[objs[stateObj].diagnosedTopics]

(***************************************************************************)
(* The state machine driven from a fresh user: one decideTurn per turn,    *)
(* the next turn starting from the nextState of the previous one.          *)
(***************************************************************************)
DecideTurn ==
    /\ \E p \in Prompts :
        /\ turn' = decideTurn(p, userState)
        /\ userState' = turn'.nextState
        /\ prompt' = p
    /\ priorState' = userState
    /\ asked' = IF turn'.diagnosisOnly /\ turn'.activeTopic # "unknown"
                THEN asked \cup {turn'.activeTopic}
                ELSE asked
    /\ UNCHANGED notTurn

Init ==
    /\ TurnInit
    /\ AskQuiet
    /\ RankIdle
    /\ RagQuiet
    /\ CacheQuiet
    /\ HistQuiet
    /\ TrimQuiet
    /\ MemQuiet
    /\ UsersQuiet
    /\ SessQuiet
    /\ CosQuiet
    /\ HitQuiet
    /\ FirstQuiet
    /\ HelpQuiet
    /\ KeyQuiet
    /\ SweepQuiet
    /\ AliasQuiet

Next == DecideTurn

Spec == Init /\ [][Next]_vars

(***************************************************************************)
(* decideTurn on every stored state: the first turn starts from any state  *)
(* a user document can hold.                                               *)
(***************************************************************************)
DecideInit ==
    /\ userState \in UserStates
    /\ turn = NoTurn
    /\ prompt = <<>>
    /\ priorState = userState
    /\ asked = {}
    /\ AskQuiet
    /\ RankIdle
    /\ RagQuiet
    /\ CacheQuiet
    /\ HistQuiet
    /\ TrimQuiet
    /\ MemQuiet
    /\ UsersQuiet
    /\ SessQuiet
    /\ CosQuiet
    /\ HitQuiet
    /\ FirstQuiet
    /\ HelpQuiet
    /\ KeyQuiet
    /\ SweepQuiet
    /\ AliasQuiet

SpecDecide == DecideInit /\ [][Next]_vars

\* A turn that is no fast pass and no answer to a pending diagnostic
\* question, with a known topic.
OrdinaryTurnOnTopic ==
    /\ turn # NoTurn
    /\ ~turn.wantsFastPass
    /\ ~(isAnswerToMultipleChoice(prompt) /\ priorState.phase = "DIAGNOSE")
    /\ turn.activeTopic # "unknown"

TopicSwitch ==
    turn.explicitTopic # "unknown" /\ turn.explicitTopic # priorState.currentTopic

\* C24 (as claimed): on such a turn, if the explicit topic differs from the
\* current topic or the active topic is not in diagnosedTopics, diagnosisOnly
\* equals (active topic not in diagnosedTopics), in every phase.
C24_UndiagnosedTopicIsDiagnosed ==
    (OrdinaryTurnOnTopic
        /\ (TopicSwitch \/ turn.activeTopic \notin priorState.diagnosedTopics))
        => (turn.diagnosisOnly <=> turn.activeTopic \notin priorState.diagnosedTopics)

\* C24 (amended): on such a turn diagnosisOnly equals (active topic not in
\* diagnosedTopics) when the explicit topic differs from the current topic or
\* the stored phase is IDLE, and is false otherwise.
C24_UndiagnosedTopicIsDiagnosedOnSwitchOrIdle ==
    OrdinaryTurnOnTopic
        => IF TopicSwitch \/ priorState.phase = "IDLE"
           THEN turn.diagnosisOnly <=> turn.activeTopic \notin priorState.diagnosedTopics
           ELSE ~turn.diagnosisOnly

\* A user taught on a topic after a fast pass goes on with the same topic,
\* which was never diagnosed.
C24_Witness ==
    /\ OrdinaryTurnOnTopic
    /\ ~TopicSwitch
    /\ priorState.phase = "TEACH"
    /\ turn.activeTopic \notin priorState.diagnosedTopics
    /\ ~turn.diagnosisOnly

\* C1 (as claimed): in every state reached from defaultUserState by decideTurn
\* calls, phase = DIAGNOSE implies currentTopic is not null.
C1_DiagnoseImpliesTopic ==
    userState.phase = "DIAGNOSE" => userState.currentTopic # "null"

\* C1 (amended): a turn that ends in phase DIAGNOSE with a recognized active
\* topic has made that topic the current topic; currentTopic stays null in
\* DIAGNOSE only when the turn recognized no topic at all.
C1_DiagnoseTopicUnlessUnknown ==
    (turn # NoTurn /\ userState.phase = "DIAGNOSE") =>
        \/ (turn.activeTopic # "unknown" /\ userState.currentTopic = turn.activeTopic)
        \/ (turn.activeTopic = "unknown" /\ userState.currentTopic = "null")

C1_Witness ==
    /\ turn # NoTurn
    /\ userState.phase = "DIAGNOSE"
    /\ turn.activeTopic # "unknown"
    /\ userState.currentTopic = turn.activeTopic

AnswerOK(content) ==
    \/ isValidDiagnosisOnlyOutput(content)
    \/ content = forcedDiagnosticTemplate(askTurn.activeTopic)

\* C2: on a diagnosis-only turn, in both handlers, whatever answer is sent to
\* the client and whatever assistant message is persisted passes
\* isValidDiagnosisOnlyOutput or is forcedDiagnosticTemplate(activeTopic), and
\* a completion text the guard refused leads to no error event.
C2_DiagnosisAnswerGuarded ==
    askTurn.diagnosisOnly =>
        /\ \A i \in 1..Len(sent) :
              sent[i].type \in {"answer", "token"} => AnswerOK(sent[i].content)
        /\ \A i \in 1..Len(saved) :
              saved[i].role = "assistant" => AnswerOK(saved[i].content)
        /\ guardFailed => \A i \in 1..Len(sent) : sent[i].type # "error"

\* A streaming diagnosis-only request whose completion text failed the guard
\* has sent and persisted the template.
C2_Witness ==
    /\ askKind = "stream"
    /\ askPc = "done"
    /\ askTurn.diagnosisOnly
    /\ guardFailed
    /\ \E i \in 1..Len(sent) :
          /\ sent[i].type = "token"
          /\ sent[i].content = forcedDiagnosticTemplate(askTurn.activeTopic)
    /\ \E i \in 1..Len(saved) :
          /\ saved[i].role = "assistant"
          /\ saved[i].content = forcedDiagnosticTemplate(askTurn.activeTopic)

\* The candidate whose text a chunk is.
CandidateOf(id) == similarities[id]

ChunkIds == {ranked.chunks[i] : i \in 1..Len(ranked.chunks)}

\* The candidates that rank before c: a higher similarity, or the same
\* similarity and an earlier place in retrieval order.
RankedBefore(c) ==
    {i \in 1..Len(similarities) :
        \/ similarities[i].sim > c.sim
        \/ (similarities[i].sim = c.sim /\ i < c.id)}

InTopK(c) == Cardinality(RankedBefore(c)) < topK

C25_SourcesParallelToChunks ==
    ranked # NotRanked =>
        /\ Len(ranked.sources) = Len(ranked.chunks)
        /\ \A i \in 1..Len(ranked.chunks) :
              /\ ranked.sources[i].source = CandidateOf(ranked.chunks[i]).source
              /\ ranked.sources[i].score = CandidateOf(ranked.chunks[i]).sim

Descending ==
    \A i, j \in 1..Len(ranked.chunks) :
        i < j => CandidateOf(ranked.chunks[i]).sim >= CandidateOf(ranked.chunks[j]).sim

\* C6 (as claimed): the chunks of a completed run are exactly the candidates
\* among the topK highest-similarity ones whose similarity exceeds the
\* threshold, in descending order of similarity.
C6_TopKAboveThreshold ==
    ranked # NotRanked =>
        /\ ChunkIds = {i \in 1..Len(similarities) :
                          /\ InTopK(similarities[i])
                          /\ similarities[i].sim > SIMILARITY_THRESHOLD}
        /\ Len(ranked.chunks) = Cardinality(ChunkIds)
        /\ Descending

\* C6 (amended): the chunks of a completed run are exactly the texts of the
\* candidates among the topK highest-similarity ones whose similarity exceeds
\* the threshold and whose text is not empty, in descending order of
\* similarity; so at most topK chunks, none from below the topK highest.
C6_TopKAboveThresholdWithText ==
    ranked # NotRanked =>
        /\ ChunkIds = {i \in 1..Len(similarities) :
                          /\ InTopK(similarities[i])
                          /\ similarities[i].sim > SIMILARITY_THRESHOLD
                          /\ similarities[i].hasText}
        /\ Len(ranked.chunks) = Cardinality(ChunkIds)
        /\ Len(ranked.chunks) <= topK
        /\ Descending

\* More candidates than topK, the best one last in retrieval order: one
\* candidate is cut by topK, one by the threshold, and one is returned.
C6_Witness ==
    /\ ranked # NotRanked
    /\ Len(similarities) = 3
    /\ topK = 2
    /\ similarities[1].sim = SIMILARITY_THRESHOLD
    /\ similarities[2].sim < similarities[3].sim
    /\ similarities[2].sim > SIMILARITY_THRESHOLD
    /\ ranked.chunks = <<3, 2>>

WorkStep ==
    /\ workPc \in {"embedding", "query", "scoring"}
    /\ (workPc' # workPc \/ batchStart' # batchStart)

\* C28 (as claimed): once the signal is aborted, the next step of
\* performRAGWork starts no store query and no scoring batch, ranks nothing,
\* leaves the retrieval cache alone and rejects with RAG_TIMEOUT.
C28_AbortStopsPipeline ==
    [][(aborted /\ WorkStep)
        => /\ workPc' = "settled"
           /\ batchStart' = batchStart
           /\ ragCache' = ragCache
           /\ raised' = TimeoutError]_vars

\* C28 (amended): the same, except that the rejection is the error of the
\* embedding call or the store query when the call in flight fails; the
\* call's result is "timeout" in every case.
C28_AbortStopsPipelineOrStepFails ==
    [][(aborted /\ WorkStep)
        => /\ workPc' = "settled"
           /\ batchStart' = batchStart
           /\ ragCache' = ragCache
           /\ \/ raised' = TimeoutError
              \/ raised' \in StoreErrors /\ workPc \in {"embedding", "query"}
           /\ ragResult' = EmptyResult("timeout")]_vars

\* The signal was aborted while the second scoring batch was in flight: the
\* third batch was never started and nothing was cached.
C28_Witness ==
    /\ aborted
    /\ workPc = "settled"
    /\ raised = TimeoutError
    /\ batchStart = RAG_BATCH_SIZE
    /\ batchStart + RAG_BATCH_SIZE < Len(corpus)
    /\ ragCache[ragCall.key] = NoEntry
    /\ ragResult = EmptyResult("timeout")

\* C29: every value written to the retrieval cache is {chunks, sources} of a
\* run that scored every retrieved document and never saw the signal aborted;
\* a run that ends in abort, error, quota_exceeded or no_chunks writes nothing.
C29_OnlyCompleteRunsCached ==
    [][/\ \A k \in RagKeys :
            (ragCache'[k] # ragCache[k] /\ ragCache'[k] # NoEntry)
                => /\ k = ragCall.key
                   /\ ~aborted
                   /\ workPc = "scoring" /\ workPc' = "settled"
                   /\ raised' = NoError
                   /\ batchEnd(batchStart, Len(corpus)) = Len(corpus)
                   /\ LET r == rankResults(WithIds(Scored(corpus)), ragCall.topK)
                      IN  ragCache'[k].data = [chunks |-> r.chunks, sources |-> r.sources]
       /\ (WorkStep /\ workPc' = "settled" /\ (aborted \/ raised' # NoError \/ corpus = <<>>))
            => ragCache' = ragCache]_vars

\* A run over three scoring batches has cached its one chunk, although the
\* deadline fired while it ran.
C29_Witness ==
    /\ ragCall # NoCall
    /\ workPc = "settled"
    /\ timer = "fired"
    /\ Len(corpus) > 2 * RAG_BATCH_SIZE
    /\ ragResult = EmptyResult("timeout")
    /\ ragCache[ragCall.key] # NoEntry
    /\ Len(ragCache[ragCall.key].data.chunks) = 1

\* C4: whatever the embedding call, the store query, the timer and the abort
\* do, and whatever candidates are scored, getRAGContext never throws.
C4_RetrievalNeverThrows == ctxResult # Threw

\* C7: a getCache that follows setCache(key, v, ttl) returns v while
\* now - timestamp <= ttl, and returns null and removes the entry once
\* now - timestamp > ttl, for the ttl that was passed to setCache.
C7_GetHonoursRequestedTtl ==
    [][(lastOp'.flip # lastOp.flip /\ lastOp'.name = "getCache"
            /\ requested[lastOp'.key] >= 0)
        => LET key == lastOp'.key
           IN  IF now - cache[key].timestamp <= requested[key]
               THEN lastOp'.hit /\ lastOp'.data = cache[key].data
               ELSE ~lastOp'.hit /\ cache'[key] = NoCacheEntry]_vars

UpdateNames == {"updateHistoryCache", "updateStateCache"}

\* C8: updateHistoryCache and updateStateCache replace only the data of a
\* live entry, keeping its timestamp and ttl, and return true; on a missing
\* or expired entry they leave no entry and return false.
C8_UpdateKeepsLifetime ==
    [][(lastOp'.flip # lastOp.flip /\ lastOp'.name \in UpdateNames)
        => LET key == lastOp'.key
           IN  /\ IF entryLive(cache[key], now)
                  THEN /\ lastOp'.hit
                       /\ cache'[key].timestamp = cache[key].timestamp
                       /\ cache'[key].ttl = cache[key].ttl
                  ELSE /\ ~lastOp'.hit
                       /\ cache'[key] = NoCacheEntry
               /\ \A k \in CacheKeys \ {key} : cache'[k] = cache[k]]_vars

\* A message has been appended to a cached history that was written some
\* time ago.
C8_Witness ==
    /\ lastOp.name = "updateHistoryCache"
    /\ lastOp.hit
    /\ cache[lastOp.key].timestamp < now
    /\ cache[lastOp.key].data = ArrayOf(<<"m1", "m1">>)

Items(seq) == {seq[i] : i \in 1..Len(seq)}

\* C9: a getHistoryCached cache hit returns every message that a request
\* has saved and passed to updateHistoryCache before.
C9_HitHasAppendedMessages ==
    [][\A r \in Slots :
          (req[r].pc = "idle" /\ req'[r].pc = "answering" /\ req'[r].cached)
              => appended \subseteq Items(req'[r].history)]_vars

IsSuffix(short, long) ==
    /\ Len(short) <= Len(long)
    /\ short = SubSeq(long, Len(long) - Len(short) + 1, Len(long))

\* C10: a loaded history whose estimated tokens exceed MAX_HISTORY_TOKENS
\* is cut down to a strict suffix whose estimated tokens are within the
\* budget.
C10_TrimmedSuffixWithinBudget ==
    (limited /\ estimateMessagesTokens(conversationHistory) > MAX_HISTORY_TOKENS)
        => /\ IsSuffix(limitedHistory, conversationHistory)
           /\ Len(limitedHistory) < Len(conversationHistory)
           /\ estimateMessagesTokens(limitedHistory) <= MAX_HISTORY_TOKENS

\* C11: the history passed to the completion call has at most
\* MAX_HISTORY_MESSAGES_FALLBACK messages and at most MAX_HISTORY_TOKENS
\* estimated tokens.
C11_BothLimitsHold ==
    limited
        => /\ Len(limitedHistory) <= MAX_HISTORY_MESSAGES_FALLBACK
           /\ estimateMessagesTokens(limitedHistory) <= MAX_HISTORY_TOKENS

Before(name, i) == \E j \in 1..(i - 1) : events[j] = name

\* C12 (as claimed): the response is finalized only after the completion
\* call, the save of the user message, the save of the assistant message and
\* the save of the user state have all ended.
C12_RespondsAfterAllWrites ==
    \A i \in 1..Len(events) :
        events[i] = "responded"
            => /\ Before("completion", i)
               /\ Before("userSaved", i)
               /\ Before("assistantSaved", i)
               /\ Before("stateSaved", i)

\* C12: the response is finalized only after the completion call and the
\* saves of the user message and of the assistant message (when there is an
\* answer to save) have ended; saveUserState has been called by then but has
\* not ended.
C12_RespondsAfterMessageWrites ==
    \A i \in 1..Len(events) :
        events[i] = "responded"
            => /\ Before("completion", i)
               /\ Before("userSaved", i)
               /\ (askKind = "json" \/ answer # <<>>) => Before("assistantSaved", i)
               /\ Before("stateSaveStarted", i)
               /\ ~Before("stateSaved", i)

\* A streaming request has written its "done" event, both messages are
\* saved, and the state save is still running.
C12_Witness ==
    /\ askKind = "stream"
    /\ askPc = "done"
    /\ stateSave.pending
    /\ Len(saved) = 2
    /\ \E i \in 1..Len(sent) : sent[i].type = "done"
    /\ \E i \in 1..Len(events) : events[i] = "responded"

\* A decideTurn call has been made.
Decided == turn # NoTurn

\* C13: nextState.diagnosedTopics contains every topic of the state's
\* diagnosedTopics, for every state and prompt.
C13_DiagnosedTopicsGrow ==
    Decided => priorState.diagnosedTopics \subseteq turn.nextState.diagnosedTopics

\* A turn on a state with a diagnosed topic has marked another one.
C13_Witness ==
    /\ Decided
    /\ priorState.diagnosedTopics # {}
    /\ turn.nextState.diagnosedTopics # priorState.diagnosedTopics
    /\ priorState.diagnosedTopics \subseteq turn.nextState.diagnosedTopics

\* C33: once a turn was diagnosis-only with a known activeTopic T, no later
\* turn of that user is diagnosis-only with activeTopic T.
C33_DiagnosedOncePerTopic ==
    [][\A T \in asked : ~(turn'.diagnosisOnly /\ turn'.activeTopic = T)]_vars

\* The user comes back to a topic the diagnostic question was asked for, and
\* the turn is not diagnosis-only.
C33_Witness ==
    /\ Decided
    /\ turn.explicitTopic \in asked
    /\ turn.explicitTopic # priorState.currentTopic
    /\ ~turn.wantsFastPass
    /\ ~turn.diagnosisOnly

\* C34: a diagnosis-only turn with a known activeTopic has the topic in
\* nextState.diagnosedTopics; a produced state in phase DIAGNOSE with a
\* currentTopic has it in diagnosedTopics.
C34_DiagnosisMarksTopic ==
    Decided =>
        /\ (turn.diagnosisOnly /\ turn.activeTopic # "unknown")
              => turn.activeTopic \in turn.nextState.diagnosedTopics
        /\ (turn.nextState.phase = "DIAGNOSE" /\ turn.nextState.currentTopic # "null")
              => turn.nextState.currentTopic \in turn.nextState.diagnosedTopics

\* A diagnosis-only turn has marked a topic that was not marked before.
C34_Witness ==
    /\ Decided
    /\ turn.diagnosisOnly
    /\ turn.activeTopic # "unknown"
    /\ turn.activeTopic \notin priorState.diagnosedTopics
    /\ turn.nextState.phase = "DIAGNOSE"
    /\ turn.nextState.diagnosedTopics = priorState.diagnosedTopics \cup {turn.activeTopic}

\* C35: a currentTopic that is a known topic never becomes null again, and a
\* prompt in which no topic is recognized leaves it as it is.
C35_TopicNeverRegresses ==
    [][userState.currentTopic # "null"
        => /\ userState'.currentTopic # "null"
           /\ detectTopic(prompt') = "unknown"
                => userState'.currentTopic = userState.currentTopic]_vars

\* A user with a topic has sent a prompt that names none.
C35_Witness ==
    /\ Decided
    /\ priorState.currentTopic # "null"
    /\ detectTopic(prompt) = "unknown"
    /\ ~isAnswerToMultipleChoice(prompt)
    /\ userState.currentTopic = priorState.currentTopic

\* C36: in every state decideTurn produces, phase TEACH implies a
\* currentTopic and phase IDLE implies none.
C36_PhaseAgreesWithTopic ==
    Decided =>
        /\ turn.nextState.phase = "TEACH" => turn.nextState.currentTopic # "null"
        /\ turn.nextState.phase = "IDLE" => turn.nextState.currentTopic = "null"

\* A fast-pass request that names no topic, from a user without one.
C36_Witness ==
    /\ Decided
    /\ turn.wantsFastPass
    /\ priorState.currentTopic = "null"
    /\ turn.nextState.phase = "IDLE"
    /\ turn.nextState.currentTopic = "null"

\* The prompt names a topic that is neither the current one nor diagnosed,
\* asks for no fast pass and answers no pending diagnostic question.
NewTopicPrompt ==
    /\ Decided
    /\ ~isFastPassRequest(prompt)
    /\ detectTopic(prompt) # "unknown"
    /\ detectTopic(prompt) # priorState.currentTopic
    /\ detectTopic(prompt) \notin priorState.diagnosedTopics
    /\ ~(isAnswerToMultipleChoice(prompt) /\ priorState.phase = "DIAGNOSE")

\* C14: such a prompt gives diagnosisOnly = true, phase DIAGNOSE, the named
\* topic as currentTopic, and keeps every diagnosed topic.
C14_NewTopicIsDiagnosed ==
    NewTopicPrompt
        => /\ turn.diagnosisOnly
           /\ turn.nextState.phase = "DIAGNOSE"
           /\ turn.nextState.currentTopic = detectTopic(prompt)
           /\ priorState.diagnosedTopics \subseteq turn.nextState.diagnosedTopics

\* A user taught on one diagnosed topic names another one.
C14_Witness ==
    /\ NewTopicPrompt
    /\ priorState.phase = "TEACH"
    /\ priorState.currentTopic \in priorState.diagnosedTopics
    /\ turn.diagnosisOnly
    /\ turn.nextState.currentTopic # priorState.currentTopic

\* The prompt is a fixed-choice answer given in phase DIAGNOSE, no fast pass.
AnswerInDiagnose ==
    /\ Decided
    /\ priorState.phase = "DIAGNOSE"
    /\ ~isFastPassRequest(prompt)
    /\ isAnswerToMultipleChoice(prompt)

\* C15 (as claimed): an answer in phase DIAGNOSE gives diagnosisOnly = false,
\* phase TEACH, and the topic marked as diagnosed.
C15_AnswerLeadsToTeach ==
    AnswerInDiagnose
        => /\ ~turn.diagnosisOnly
           /\ turn.nextState.phase = "TEACH"
           /\ turn.activeTopic \in turn.nextState.diagnosedTopics

\* C15: an answer in phase DIAGNOSE gives diagnosisOnly = false; with a known
\* active topic the phase becomes TEACH and that topic is marked, with no
\* topic known the phase becomes IDLE and nothing is marked.
C15_AnswerLeadsToTeachIfTopicKnown ==
    AnswerInDiagnose
        => /\ ~turn.diagnosisOnly
           /\ IF turn.activeTopic # "unknown"
              THEN /\ turn.nextState.phase = "TEACH"
                   /\ turn.activeTopic \in turn.nextState.diagnosedTopics
              ELSE /\ turn.nextState.phase = "IDLE"
                   /\ turn.nextState.diagnosedTopics = priorState.diagnosedTopics

\* The bare letter "B" answers the diagnostic question on the current topic.
C15_Witness ==
    /\ AnswerInDiagnose
    /\ prompt = <<"B">>
    /\ priorState.currentTopic # "null"
    /\ turn.nextState.phase = "TEACH"
    /\ priorState.currentTopic \in turn.nextState.diagnosedTopics

\* C16: a prompt with a fast-pass trigger gives diagnosisOnly = false and a
\* next phase other than DIAGNOSE, in every state.
C16_FastPassNeverDiagnoses ==
    (Decided /\ isFastPassRequest(prompt))
        => /\ ~turn.diagnosisOnly
           /\ turn.nextState.phase # "DIAGNOSE"

\* A fast-pass prompt naming a topic that is new to the user.
C16_Witness ==
    /\ Decided
    /\ isFastPassRequest(prompt)
    /\ detectTopic(prompt) # "unknown"
    /\ detectTopic(prompt) # priorState.currentTopic
    /\ detectTopic(prompt) \notin priorState.diagnosedTopics
    /\ priorState.phase = "DIAGNOSE"
    /\ ~turn.diagnosisOnly

====
